---------------------------- MODULE Spec2Model ----------------------------
(***************************************************************************)
(* A model of the expression tree (src/src/expression.cpp), the symbols    *)
(* (src/src/core/autogen_cursor/symbol.cpp) and the rule-based simplifier  *)
(* (src/src/simplifier.cpp) of MetaWave_QC_Compiler.                       *)
(*                                                                         *)
(* An expression node is a record                                          *)
(*   [type, symbol, children, coefficients_, properties_, heap]            *)
(* with the fields of Expression / SymbolExpression / SumExpression.  The  *)
(* field heap tells who allocated the node: "caller" for the nodes of a    *)
(* tree the client built and handed in by const reference, "fresh" for a   *)
(* node allocated by a factory or by clone() during an operation.          *)
(* Doubles are modelled by integers (finite, non-NaN values).              *)
(***************************************************************************)
EXTENDS Integers, Sequences, FiniteSets, TLC

VARIABLES
    expr,            \* the tree the client holds and passes by const reference
    pc,              \* "idle" | "built" | "loop" | "done": position of the client / of simplify
    op,              \* the operation called last
    result,          \* Simplifier::simplify: local result
    changed,         \* Simplifier::simplify: local changed
    iterations,      \* Simplifier::simplify: local iterations
    enable_trace_,   \* Simplifier::enable_trace_
    trace_log_,      \* Simplifier::trace_log_
    ret,             \* the tree the last operation returned (Null for nullptr)
    other,           \* the second operand of a comparison
    cmp,             \* the outcome of a comparison: equals and the two hashes
    scopes,          \* ScopedMap::scopes, innermost scope first
    sm_pc,           \* the ScopedMap object: "none", "live", "undefined" (corrupted) or "crashed"
    metawave_asserts,\* whether the build defines METAWAVE_ASSERTS
    sm_ret,          \* what the last ScopedMap call did
    sm_saved,        \* history: the stack as it was at each scope() still open, and,
                     \* after an unscope(), the stack before the scope() it closed
    ng_pc,           \* the NameGenerator object: "none" or "live"
    nameCounters,    \* NameGenerator::nameCounters
    reserved,        \* the names the NameGenerator was constructed with
    issued,          \* the strings getUniqueName returned, in order
    uniqueNameCounter, \* the process-wide atomic<int>
    obtained,        \* per thread, what its calls of getUniqueId / uniqueName returned
    index_attribute, \* the IndexAttribute value last examined
    attr_ret,        \* what the is_* predicates and is_valid_index_attribute said of it
    split_pc,        \* util::split: "idle", "loop" (at the while condition) or "done"
    str,             \* split's argument str, a sequence of characters
    delim,           \* split's argument delim
    keepDelim,       \* split's argument keepDelim
    prev,            \* split's local prev
    results,         \* split's local results, returned at the end
    split_turns      \* how many times the body of split's while loop ran

exprVars == <<expr, pc, op, result, changed, iterations, enable_trace_, trace_log_, ret, other, cmp>>

smapVars == <<scopes, sm_pc, metawave_asserts, sm_ret, sm_saved>>

nameVars == <<ng_pc, nameCounters, reserved, issued>>

counterVars == <<uniqueNameCounter, obtained>>

attrVars == <<index_attribute, attr_ret>>

splitVars == <<split_pc, str, delim, keepDelim, prev, results, split_turns>>

utilVars == <<smapVars, nameVars, counterVars, attrVars, splitVars>>

\* what a step on one of the util classes leaves alone
notSmapVars == <<exprVars, nameVars, counterVars, attrVars, splitVars>>

notNameVars == <<exprVars, smapVars, counterVars, attrVars, splitVars>>

notCounterVars == <<exprVars, smapVars, nameVars, attrVars, splitVars>>

notAttrVars == <<exprVars, smapVars, nameVars, counterVars, splitVars>>

notSplitVars == <<exprVars, smapVars, nameVars, counterVars, attrVars>>

vars == <<exprVars, utilVars>>

---------------------------------------------------------------------------
(* Bounds of the model *)

\* number of variable symbols the client builds trees from
NumVars == 2
\* longest chain of nested "+ 0" around a symbol
MaxChain == 11
\* most terms of an n-ary Sum the client builds
MaxTerms == 2
\* width of std::size_t in the model (64 in the build)
HashBits == 16
\* most children a client gives a node with add_child / add_term
MaxChildren == 3
\* entries in the trace log before the client turns to short simplify calls
MinFill == 990
\* deepest nesting of scopes a client opens in a ScopedMap
MaxScopes == 2
\* most calls of getUniqueName on one NameGenerator
MaxNames == 4
\* most values the threads draw from the process-wide counter
MaxCount == 4
\* largest IndexAttribute value examined: all combinations of the low 7 bits
MaxAttribute == 127
\* longest string handed to util::split
MaxStr == 3
\* longest delimiter handed to util::split
MaxDelim == 2
\* turns of split's while loop that are followed
MaxTurns == 6

(* Program constants *)
max_iterations == 10
TraceCap == 1000
TraceDrop == 100
\* 0x9e3779b9 = GoldenHi * 2^16 + GoldenLo
GoldenHi == 40503
GoldenLo == 31161

---------------------------------------------------------------------------
(* Symbols: symbol.h / symbol.cpp *)

\* Symbol::Symbol(name, type = VARIABLE)
Symbol(name) ==
    [class |-> "Symbol", name |-> name, type |-> "VARIABLE", value |-> 0]

\* ScalarSymbol::ScalarSymbol(name, value): Symbol(name, Type::SCALAR), value_
ScalarSymbol(name, value) ==
    [class |-> "ScalarSymbol", name |-> name, type |-> "SCALAR", value |-> value]

\* the symbol_ slot of a node that is no SymbolExpression
NoSymbol == [class |-> "none", name |-> "", type |-> "none", value |-> 0]

\* enum class Symbol::Type as int
SymbolTypeInt(t) ==
    CASE t = "SCALAR" -> 0 [] t = "VARIABLE" -> 1 [] t = "CONSTANT" -> 2
      [] t = "COMPLEX" -> 3 [] OTHER -> 0

\* Symbol::operator==: name and type, never the value
Symbol_eq(s, t) == s.name = t.name /\ s.type = t.type

Symbol_is_scalar(s) == s.type = "SCALAR"

\* operator<<(ostream, double) for an integral value of fewer than 7 digits
StreamDouble(v) == ToString(v)

\* std::to_string(double): "%f"
std_to_string(v) == ToString(v) \o ".000000"

\* Symbol::to_string / ScalarSymbol::to_string (virtual)
Symbol_to_string(s) ==
    IF s.class = "ScalarSymbol"
    THEN s.name \o "=" \o StreamDouble(s.value)
    ELSE s.name \o (IF s.type = "COMPLEX" THEN "(C)"
                    ELSE IF s.type = "CONSTANT" THEN "(c)" ELSE "")

\* Symbol::clone / ScalarSymbol::clone (virtual): same class, name, type, value
Symbol_clone(s) ==
    IF s.class = "ScalarSymbol" THEN ScalarSymbol(s.name, s.value)
    ELSE [class |-> "Symbol", name |-> s.name, type |-> s.type, value |-> 0]

---------------------------------------------------------------------------
(* Expression nodes: expression.h / expression.cpp *)

\* enum class Expression::Type as int
TypeInt(t) ==
    CASE t = "SYMBOL" -> 0 [] t = "TENSOR" -> 1 [] t = "OPERATOR" -> 2
      [] t = "OPERATOR_PRODUCT" -> 3 [] t = "ADD" -> 4 [] t = "SUBTRACT" -> 5
      [] t = "MULTIPLY" -> 6 [] t = "DIVIDE" -> 7 [] t = "POWER" -> 8
      [] t = "COMMUTATOR" -> 9 [] t = "ANTICOMMUTATOR" -> 10
      [] t = "CONTRACT" -> 11 [] t = "SUM" -> 12 [] OTHER -> 15

BinaryTypes == {"ADD", "SUBTRACT", "MULTIPLY", "DIVIDE", "POWER"}

\* Expression::Expression(type): a node allocated during an operation
Node(type, sym, children, coeffs) ==
    [type |-> type, symbol |-> sym, children |-> children,
     coefficients_ |-> coeffs, properties_ |-> <<>>, heap |-> "fresh"]

\* std::unique_ptr<Expression>() : nullptr, "rule does not apply"
Null == [type |-> "nullptr", symbol |-> NoSymbol, children |-> <<>>,
         coefficients_ |-> <<>>, properties_ |-> <<>>, heap |-> "none"]

is_binary(e) == Len(e.children) = 2
child(e, i) == e.children[i + 1]
left(e) == child(e, 0)
right(e) == child(e, 1)

\* Expression::add_child: children_.push_back(child)
add_child(e, c) == [e EXCEPT !.children = Append(@, c)]

\* Expression::set_child(i, child), i counted from 0: ignored when i >= size
set_child(e, i, c) ==
    IF i < Len(e.children) THEN [e EXCEPT !.children[i + 1] = c] ELSE e

\* SymbolExpression::SymbolExpression(symbol): symbol_(symbol.clone())
SymbolExpression(sym) == Node("SYMBOL", Symbol_clone(sym), <<>>, <<>>)

\* BinaryOpExpression::BinaryOpExpression(type, left, right): two add_child
BinaryOpExpression(type, l, r) == Node(type, NoSymbol, <<l, r>>, <<>>)

\* BinaryOpExpression::set_operator_symbol
operator_symbol_(type) ==
    CASE type = "ADD" -> "+" [] type = "SUBTRACT" -> "-" [] type = "MULTIPLY" -> "*"
      [] type = "DIVIDE" -> "/" [] type = "POWER" -> "^" [] OTHER -> "?"

\* CommutatorExpression::CommutatorExpression(A, B)
CommutatorExpression(A, B) == Node("COMMUTATOR", NoSymbol, <<A, B>>, <<>>)

\* SumExpression::SumExpression()
SumExpression == Node("SUM", NoSymbol, <<>>, <<>>)

\* SumExpression::add_term(term, coefficient)
add_term(s, term, coefficient) ==
    [s EXCEPT !.children = Append(@, term),
              !.coefficients_ = Append(@, coefficient)]

\* Expression::set_property(key, value): properties_[key] = value
set_property(e, key, value) ==
    [e EXCEPT !.properties_ = [k \in DOMAIN @ \cup {key} |-> IF k = key THEN value ELSE @[k]]]

\* Expression::has_property(key)
has_property(e, key) == key \in DOMAIN e.properties_

\* Expression::get_property(key): the empty string when the key is not set
get_property(e, key) == IF key \in DOMAIN e.properties_ THEN e.properties_[key] ELSE ""

\* SumExpression::set_coefficient(i, coeff): ignored when i >= coefficients_.size()
set_coefficient(s, i, coeff) ==
    IF i < Len(s.coefficients_) THEN [s EXCEPT !.coefficients_[i + 1] = coeff] ELSE s

\* SumExpression::coefficient(i), i counted from 0
coefficient(s, i) ==
    IF i < Len(s.coefficients_) THEN s.coefficients_[i + 1] ELSE 1

(* ExpressionFactory *)
Fsymbol(sym) == SymbolExpression(sym)
Fadd(l, r) == BinaryOpExpression("ADD", l, r)
Fsubtract(l, r) == BinaryOpExpression("SUBTRACT", l, r)
Fmultiply(l, r) == BinaryOpExpression("MULTIPLY", l, r)
Fdivide(l, r) == BinaryOpExpression("DIVIDE", l, r)
Fpower(l, r) == BinaryOpExpression("POWER", l, r)
Fcommutator(A, B) == CommutatorExpression(A, B)
Fzero == Fsymbol(ScalarSymbol("0", 0))
Fone == Fsymbol(ScalarSymbol("1", 1))
Fconstant(value) == Fsymbol(ScalarSymbol(std_to_string(value), value))

\* a variant of clone that hands out the node itself instead of a copy
clone_alias(e) == e

\* SymbolExpression / BinaryOpExpression / CommutatorExpression / SumExpression ::clone
RECURSIVE clone(_)
RECURSIVE SumCloneFrom(_, _, _)
\* a variant of SumExpression::clone that copies the terms with the default coefficient
SumCloneFrom_unit(e, i, acc) ==
    IF i >= Len(e.children) THEN acc
    ELSE SumCloneFrom(e, i + 1, add_term(acc, clone(child(e, i)), 1))

SumCloneFrom(e, i, acc) ==
    IF i >= Len(e.children) THEN acc
    ELSE SumCloneFrom(e, i + 1, add_term(acc, clone(child(e, i)), coefficient(e, i)))

clone(e) ==
    CASE e.type = "SYMBOL" -> SymbolExpression(e.symbol)
      [] e.type \in BinaryTypes -> BinaryOpExpression(e.type, clone(left(e)), clone(right(e)))
      [] e.type = "COMMUTATOR" -> CommutatorExpression(clone(left(e)), clone(right(e)))
      [] e.type = "SUM" -> SumCloneFrom(e, 0, SumExpression)
      [] OTHER -> Null

\* *::derivative(var)
RECURSIVE derivative(_, _)
RECURSIVE SumDerivativeFrom(_, _, _, _)
\* a variant of SumExpression::derivative that adds the terms with the default coefficient
SumDerivativeFrom_unit(e, var, i, acc) ==
    IF i >= Len(e.children) THEN acc
    ELSE SumDerivativeFrom(e, var, i + 1, add_term(acc, derivative(child(e, i), var), 1))

\* the for loop of SumExpression::derivative: add_term(term_deriv, coefficient(i))
SumDerivativeFrom(e, var, i, acc) ==
    IF i >= Len(e.children) THEN acc
    ELSE SumDerivativeFrom(e, var, i + 1,
                           add_term(acc, derivative(child(e, i), var), coefficient(e, i)))

derivative(e, var) ==
    CASE e.type = "SYMBOL" -> IF Symbol_eq(e.symbol, var) THEN Fone ELSE Fzero
      [] e.type \in {"ADD", "SUBTRACT"} ->
            BinaryOpExpression(e.type, derivative(left(e), var), derivative(right(e), var))
      [] e.type = "MULTIPLY" ->
            Fadd(Fmultiply(derivative(left(e), var), clone(right(e))),
                 Fmultiply(clone(left(e)), derivative(right(e), var)))
      [] e.type = "SUM" -> SumDerivativeFrom(e, var, 0, SumExpression)
      [] OTHER -> Fzero

\* *::to_string
RECURSIVE to_string(_)
RECURSIVE SumStringFrom(_, _)
SumStringFrom(e, i) ==
    IF i >= Len(e.children) THEN ""
    ELSE (IF i > 0 THEN " + " ELSE "")
         \o (IF coefficient(e, i) # 1 THEN StreamDouble(coefficient(e, i)) \o "*" ELSE "")
         \o to_string(child(e, i))
         \o SumStringFrom(e, i + 1)

\* a variant of BinaryOp::to_string that wraps an Add or Subtract operand only
\* under Multiply, Divide and Power
BinaryOp_to_string_by_precedence(e) ==
    LET tight == e.type \in {"MULTIPLY", "DIVIDE", "POWER"}
        need_parens_left == tight /\ (left(e).type = "ADD" \/ left(e).type = "SUBTRACT")
        need_parens_right == tight /\ (right(e).type = "ADD" \/ right(e).type = "SUBTRACT")
    IN  (IF need_parens_left THEN "(" ELSE "") \o to_string(left(e))
        \o (IF need_parens_left THEN ")" ELSE "")
        \o " " \o operator_symbol_(e.type) \o " "
        \o (IF need_parens_right THEN "(" ELSE "") \o to_string(right(e))
        \o (IF need_parens_right THEN ")" ELSE "")

BinaryOp_to_string(e) ==
    LET need_parens_left == left(e).type = "ADD" \/ left(e).type = "SUBTRACT"
        need_parens_right == right(e).type = "ADD" \/ right(e).type = "SUBTRACT"
    IN  (IF need_parens_left THEN "(" ELSE "") \o to_string(left(e))
        \o (IF need_parens_left THEN ")" ELSE "")
        \o " " \o operator_symbol_(e.type) \o " "
        \o (IF need_parens_right THEN "(" ELSE "") \o to_string(right(e))
        \o (IF need_parens_right THEN ")" ELSE "")

to_string(e) ==
    CASE e.type = "SYMBOL" -> Symbol_to_string(e.symbol)
      [] e.type \in BinaryTypes -> BinaryOp_to_string(e)
      [] e.type = "COMMUTATOR" ->
            "[" \o to_string(left(e)) \o ", " \o to_string(right(e)) \o "]"
      [] e.type = "SUM" ->
            IF Len(e.children) = 0 THEN "0" ELSE SumStringFrom(e, 0)
      [] OTHER -> "?"

\* *::equals
RECURSIVE equals(_, _)
equals(a, b) ==
    CASE a.type = "SYMBOL" ->
            b.type = "SYMBOL" /\ Symbol_eq(a.symbol, b.symbol)
      [] a.type \in BinaryTypes \/ a.type = "COMMUTATOR" ->
            /\ b.type = a.type
            /\ equals(left(a), left(b))
            /\ equals(right(a), right(b))
      [] a.type = "SUM" ->
            /\ b.type = "SUM"
            /\ Len(b.children) = Len(a.children)
            /\ \A i \in 0 .. Len(a.children) - 1 :
                  /\ equals(child(a, i), child(b, i))
                  /\ coefficient(a, i) = coefficient(b, i)
      [] OTHER -> FALSE

---------------------------------------------------------------------------
(* hash(): std::size_t arithmetic is kept modulo 2^HashBits *)

HashMod == 2 ^ HashBits

\* 0x9e3779b9 reduced to the model's word (HashBits >= 16)
GoldenRatio == ((GoldenHi % (2 ^ (HashBits - 16))) * 65536 + GoldenLo) % HashMod

RECURSIVE Xor(_, _)
Xor(a, b) ==
    IF a = 0 THEN b
    ELSE IF b = 0 THEN a
    ELSE (((a % 2) + (b % 2)) % 2) + 2 * Xor(a \div 2, b \div 2)

\* std::hash<std::string>: implementation-defined; one fixed function of the name
std_hash_string(name) ==
    CASE name = "x" -> 30817 [] name = "y" -> 11506 [] name = "z" -> 52243
      [] name = "w" -> 7919 [] name = "0" -> 48271 [] name = "1" -> 16807
      [] name = "" -> 0 [] OTHER -> 25117

\* std::hash<int>: the value itself
std_hash_int(i) == i % HashMod

\* std::hash<double>: 0 for 0.0, else a function of the bits
std_hash_double(c) == IF c = 0 THEN 0 ELSE (c * 2053 + 977) % HashMod

\* seed ^= h + 0x9e3779b9 + (seed << 6) + (seed >> 2)
HashCombine(seed, h) ==
    Xor(seed, (h + GoldenRatio + ((seed * 64) % HashMod) + (seed \div 4)) % HashMod)

\* a variant of Symbol::hash that also mixes in the scalar's value
Symbol_hash_with_value(s) ==
    Xor(Xor(std_hash_string(s.name), (std_hash_int(SymbolTypeInt(s.type)) * 2) % HashMod),
        std_hash_double(s.value))

\* Symbol::hash: h1 ^ (h2 << 1)
Symbol_hash(s) ==
    Xor(std_hash_string(s.name), (std_hash_int(SymbolTypeInt(s.type)) * 2) % HashMod)

\* SymbolExpression / BinaryOpExpression / CommutatorExpression / SumExpression ::hash
RECURSIVE hash(_)
RECURSIVE SumHashFrom(_, _, _)
SumHashFrom(e, i, seed) ==
    IF i >= Len(e.children) THEN seed
    ELSE SumHashFrom(e, i + 1,
            HashCombine(HashCombine(seed, hash(child(e, i))),
                        std_hash_double(coefficient(e, i))))

hash(e) ==
    CASE e.type = "SYMBOL" -> Symbol_hash(e.symbol)
      [] e.type \in BinaryTypes \/ e.type = "COMMUTATOR" ->
            HashCombine(HashCombine(std_hash_int(TypeInt(e.type)), hash(left(e))),
                        hash(right(e)))
      [] e.type = "SUM" -> SumHashFrom(e, 0, std_hash_int(TypeInt(e.type)))
      [] OTHER -> std_hash_int(TypeInt(e.type))

\* a variant of expand with the two products swapped: BA - AB
expand_swapped(e) ==
    LET AB == Fmultiply(clone(left(e)), clone(right(e)))
        BA == Fmultiply(clone(right(e)), clone(left(e)))
    IN  Fsubtract(BA, AB)

\* CommutatorExpression::expand
expand(e) ==
    LET AB == Fmultiply(clone(left(e)), clone(right(e)))
        BA == Fmultiply(clone(right(e)), clone(left(e)))
    IN  Fsubtract(AB, BA)

---------------------------------------------------------------------------
(* Rule libraries: simplifier.cpp 98-392.  A rule looks at the root only. *)

\* the test shared by the identity and zero rules: a Symbol leaf over a
\* ScalarSymbol whose value is exactly v
IsScalarLeaf(e) ==
    e.type = "SYMBOL" /\ Symbol_is_scalar(e.symbol) /\ e.symbol.class = "ScalarSymbol"

ScalarValueIs(e, v) == IsScalarLeaf(e) /\ e.symbol.value = v

IsSumLike(e) == e.type = "ADD" \/ e.type = "SUM"

\* a variant of distribute_both that adds the terms column by column: ac, bc, ad, bd
distribute_both_by_column(l, r) ==
    LET ac == Fmultiply(clone(child(l, 0)), clone(child(r, 0)))
        ad == Fmultiply(clone(child(l, 0)), clone(child(r, 1)))
        bc == Fmultiply(clone(child(l, 1)), clone(child(r, 0)))
        bd == Fmultiply(clone(child(l, 1)), clone(child(r, 1)))
    IN  add_term(add_term(add_term(add_term(SumExpression, ac, 1), bc, 1), ad, 1), bd, 1)

\* lines 118-128: (a+b)*(c+d) = ac + ad + bc + bd
distribute_both(l, r) ==
    LET ac == Fmultiply(clone(child(l, 0)), clone(child(r, 0)))
        ad == Fmultiply(clone(child(l, 0)), clone(child(r, 1)))
        bc == Fmultiply(clone(child(l, 1)), clone(child(r, 0)))
        bd == Fmultiply(clone(child(l, 1)), clone(child(r, 1)))
    IN  add_term(add_term(add_term(add_term(SumExpression, ac, 1), ad, 1), bc, 1), bd, 1)

\* a variant of distribute_left that multiplies from the other side: ca + cb
distribute_left_flipped(l, r) ==
    Fadd(Fmultiply(clone(r), clone(child(l, 0))), Fmultiply(clone(r), clone(child(l, 1))))

\* lines 133-135: (a+b)*c = ac + bc
distribute_left(l, r) ==
    Fadd(Fmultiply(clone(child(l, 0)), clone(r)), Fmultiply(clone(child(l, 1)), clone(r)))

\* lines 141-143: a*(b+c) = ab + ac
distribute_right(l, r) ==
    Fadd(Fmultiply(clone(l), clone(child(r, 0))), Fmultiply(clone(l), clone(child(r, 1))))

distribute_multiplication(e) ==
    IF e.type # "MULTIPLY" \/ ~is_binary(e) THEN Null
    ELSE LET l == left(e)
             r == right(e)
         IN  IF IsSumLike(l)
             THEN IF IsSumLike(r)
                  THEN IF l.type = "ADD" /\ r.type = "ADD"
                       THEN distribute_both(l, r)
                       ELSE Null
                  ELSE IF l.type = "ADD"
                       THEN distribute_left(l, r)
                       ELSE Null
             ELSE IF IsSumLike(r)
                  THEN IF r.type = "ADD"
                       THEN distribute_right(l, r)
                       ELSE Null
                  ELSE Null

\* a variant of factor_common_terms that looks for a shared left factor first
factor_common_terms_left_first(e) ==
    IF e.type # "ADD" \/ ~is_binary(e) THEN Null
    ELSE LET l == left(e)
             r == right(e)
         IN  IF l.type = "MULTIPLY" /\ r.type = "MULTIPLY" /\ is_binary(l) /\ is_binary(r)
             THEN IF equals(child(l, 0), child(r, 0))
                  THEN Fmultiply(clone(child(l, 0)),
                                 Fadd(clone(child(l, 1)), clone(child(r, 1))))
                  ELSE IF equals(child(l, 1), child(r, 1))
                  THEN Fmultiply(Fadd(clone(child(l, 0)), clone(child(r, 0))),
                                 clone(child(l, 1)))
                  ELSE Null
             ELSE Null

factor_common_terms(e) ==
    IF e.type # "ADD" \/ ~is_binary(e) THEN Null
    ELSE LET l == left(e)
             r == right(e)
         IN  IF l.type = "MULTIPLY" /\ r.type = "MULTIPLY" /\ is_binary(l) /\ is_binary(r)
             THEN IF equals(child(l, 1), child(r, 1))
                  THEN Fmultiply(Fadd(clone(child(l, 0)), clone(child(r, 0))),
                                 clone(child(l, 1)))
                  ELSE IF equals(child(l, 0), child(r, 0))
                  THEN Fmultiply(clone(child(l, 0)),
                                 Fadd(clone(child(l, 1)), clone(child(r, 1))))
                  ELSE Null
             ELSE Null

distribute_over_subtraction(e) ==
    IF e.type # "MULTIPLY" \/ ~is_binary(e) THEN Null
    ELSE LET l == left(e)
             r == right(e)
         IN  IF r.type = "SUBTRACT" /\ is_binary(r)
             THEN Fsubtract(Fmultiply(clone(l), clone(child(r, 0))),
                            Fmultiply(clone(l), clone(child(r, 1))))
             ELSE IF l.type = "SUBTRACT" /\ is_binary(l)
             THEN Fsubtract(Fmultiply(clone(child(l, 0)), clone(r)),
                            Fmultiply(clone(child(l, 1)), clone(r)))
             ELSE Null

identity_addition(e) ==
    IF e.type # "ADD" \/ ~is_binary(e) THEN Null
    ELSE IF ScalarValueIs(left(e), 0) THEN clone(right(e))
    ELSE IF ScalarValueIs(right(e), 0) THEN clone(left(e))
    ELSE Null

identity_multiplication(e) ==
    IF e.type # "MULTIPLY" \/ ~is_binary(e) THEN Null
    ELSE IF ScalarValueIs(left(e), 1) THEN clone(right(e))
    ELSE IF ScalarValueIs(right(e), 1) THEN clone(left(e))
    ELSE Null

\* a variant of zero_multiplication that looks at the right operand only
zero_multiplication_right_only(e) ==
    IF e.type # "MULTIPLY" \/ ~is_binary(e) THEN Null
    ELSE IF ScalarValueIs(right(e), 0) THEN Fzero
    ELSE Null

zero_multiplication(e) ==
    IF e.type # "MULTIPLY" \/ ~is_binary(e) THEN Null
    ELSE IF ScalarValueIs(left(e), 0) \/ ScalarValueIs(right(e), 0) THEN Fzero
    ELSE Null

combine_constants(e) ==
    IF e.type = "ADD" /\ is_binary(e)
    THEN IF IsScalarLeaf(left(e)) /\ IsScalarLeaf(right(e))
         THEN Fconstant(left(e).symbol.value + right(e).symbol.value)
         ELSE Null
    ELSE IF e.type = "MULTIPLY" /\ is_binary(e)
    THEN IF IsScalarLeaf(left(e)) /\ IsScalarLeaf(right(e))
         THEN Fconstant(left(e).symbol.value * right(e).symbol.value)
         ELSE Null
    ELSE Null

antisymmetry(e) == Null

zero_commutator(e) ==
    IF e.type # "COMMUTATOR" \/ ~is_binary(e) THEN Null
    ELSE IF equals(left(e), right(e)) THEN Fzero
    ELSE Null

expand_commutator(e) ==
    IF e.type # "COMMUTATOR" \/ ~is_binary(e) THEN Null
    ELSE LET AB == Fmultiply(clone(left(e)), clone(right(e)))
             BA == Fmultiply(clone(right(e)), clone(left(e)))
         IN  Fsubtract(AB, BA)

RuleNames ==
    {"distribute_multiplication", "factor_common_terms", "distribute_over_subtraction",
     "identity_addition", "identity_multiplication", "zero_multiplication",
     "combine_constants", "antisymmetry", "zero_commutator", "expand_commutator"}

\* calling the std::function registered under a name
Rule(name, e) ==
    CASE name = "distribute_multiplication" -> distribute_multiplication(e)
      [] name = "factor_common_terms" -> factor_common_terms(e)
      [] name = "distribute_over_subtraction" -> distribute_over_subtraction(e)
      [] name = "identity_addition" -> identity_addition(e)
      [] name = "identity_multiplication" -> identity_multiplication(e)
      [] name = "zero_multiplication" -> zero_multiplication(e)
      [] name = "combine_constants" -> combine_constants(e)
      [] name = "antisymmetry" -> antisymmetry(e)
      [] name = "zero_commutator" -> zero_commutator(e)
      [] name = "expand_commutator" -> expand_commutator(e)

---------------------------------------------------------------------------
(* Simplifier: simplifier.cpp 8-96 *)

\* enum class Simplifier::RuleType as int
RuleTypeInt(rt) ==
    CASE rt = "ALGEBRAIC" -> 0 [] rt = "DISTRIBUTIVE" -> 1 [] rt = "ASSOCIATIVE" -> 2
      [] rt = "COMMUTATIVE" -> 3 [] rt = "TENSOR" -> 4 [] rt = "OPERATOR" -> 5
      [] rt = "COMMUTATOR" -> 6 [] rt = "INDEX" -> 7 [] rt = "SYMMETRY" -> 8

\* a variant of the registration with expand_commutator ahead of zero_commutator
initialize_default_rules_expand_first ==
    [rt \in {"DISTRIBUTIVE", "ALGEBRAIC", "COMMUTATOR"} |->
        CASE rt = "DISTRIBUTIVE" ->
                <<"distribute_multiplication", "factor_common_terms",
                  "distribute_over_subtraction">>
          [] rt = "ALGEBRAIC" ->
                <<"identity_addition", "identity_multiplication",
                  "zero_multiplication", "combine_constants">>
          [] rt = "COMMUTATOR" ->
                <<"antisymmetry", "expand_commutator", "zero_commutator">>]

\* Simplifier::initialize_default_rules: rules_ after construction
initialize_default_rules ==
    [rt \in {"DISTRIBUTIVE", "ALGEBRAIC", "COMMUTATOR"} |->
        CASE rt = "DISTRIBUTIVE" ->
                <<"distribute_multiplication", "factor_common_terms",
                  "distribute_over_subtraction">>
          [] rt = "ALGEBRAIC" ->
                <<"identity_addition", "identity_multiplication",
                  "zero_multiplication", "combine_constants">>
          [] rt = "COMMUTATOR" ->
                <<"antisymmetry", "zero_commutator", "expand_commutator">>]

\* Simplifier::rules_ : set by the constructor, no method of src/ changes it
rules_ == initialize_default_rules

\* a variant of rule_order that visits DISTRIBUTIVE before ALGEBRAIC
rule_order_distributive_first ==
    <<"DISTRIBUTIVE", "ALGEBRAIC", "COMMUTATOR", "TENSOR", "OPERATOR", "SYMMETRY">>

\* the local rule_order of Simplifier::simplify
rule_order ==
    <<"ALGEBRAIC", "DISTRIBUTIVE", "COMMUTATOR", "TENSOR", "OPERATOR", "SYMMETRY">>

\* a variant of apply_rules that tries every rule and keeps the last non-null result
RECURSIVE apply_rules_last(_, _, _)
apply_rules_last(e, rules, i) ==
    IF i > Len(rules) THEN Null
    ELSE LET later == apply_rules_last(e, rules, i + 1)
         IN  IF later # Null THEN later ELSE Rule(rules[i], e)

\* Simplifier::apply_rules: the first rule, in list order, that returns non-null
RECURSIVE apply_rules_from(_, _, _)
apply_rules_from(e, rules, i) ==
    IF i > Len(rules) THEN Null
    ELSE LET r == Rule(rules[i], e)
         IN  IF r # Null THEN r ELSE apply_rules_from(e, rules, i + 1)

apply_rules(e, rules) == apply_rules_from(e, rules, 1)

\* Simplifier::apply_distributive_rules
apply_distributive_rules(e) ==
    IF "DISTRIBUTIVE" \in DOMAIN rules_
    THEN apply_rules(e, rules_["DISTRIBUTIVE"])
    ELSE clone(e)

\* a variant of log_trace that keeps a strict ring buffer: one entry out per entry in
log_trace_ring(enable, log, message) ==
    IF enable
    THEN LET pushed == Append(log, message)
         IN  IF Len(pushed) > TraceCap
             THEN SubSeq(pushed, 2, Len(pushed))
             ELSE pushed
    ELSE log

\* Simplifier::log_trace
log_trace(enable, log, message) ==
    IF enable
    THEN LET pushed == Append(log, message)
         IN  IF Len(pushed) > TraceCap
             THEN SubSeq(pushed, TraceDrop + 1, Len(pushed))
             ELSE pushed
    ELSE log

\* a variant of CategoryStep that adopts the rewrite without setting changed
CategoryStep_silent(st, rule_type, old_result, enable) ==
    IF rule_type \in DOMAIN rules_
    THEN LET new_expr == apply_rules(st.result, rules_[rule_type])
         IN  IF new_expr # Null /\ to_string(new_expr) # to_string(st.result)
             THEN [st EXCEPT !.result = new_expr]
             ELSE st
    ELSE st

\* the body of "for (auto rule_type : rule_order)" for one rule_type;
\* st = [result, changed, trace_log_]
CategoryStep(st, rule_type, old_result, enable) ==
    IF rule_type \in DOMAIN rules_
    THEN LET new_expr == apply_rules(st.result, rules_[rule_type])
         IN  IF new_expr # Null /\ to_string(new_expr) # to_string(st.result)
             THEN [result |-> new_expr,
                   changed |-> TRUE,
                   trace_log_ |-> log_trace(enable, st.trace_log_,
                        "Applied " \o ToString(RuleTypeInt(rule_type)) \o " rule: "
                        \o old_result \o " -> " \o to_string(new_expr))]
             ELSE st
    ELSE st

RECURSIVE CategoryLoop(_, _, _, _)
CategoryLoop(st, k, old_result, enable) ==
    IF k > Len(rule_order) THEN st
    ELSE CategoryLoop(CategoryStep(st, rule_order[k], old_result, enable),
                      k + 1, old_result, enable)

\* one turn of the while loop of Simplifier::simplify, lines 31-45
LoopBody(st, enable) ==
    CategoryLoop([st EXCEPT !.changed = FALSE], 1, to_string(st.result), enable)

\* a variant of the while condition without the iteration cap
LoopCondition_uncapped(ch, it) == ch

\* the while condition, line 30
LoopCondition(ch, it) == ch /\ it < max_iterations

\* Simplifier::simplify run to its return
RECURSIVE SimplifyFrom(_, _)
SimplifyFrom(st, it) ==
    IF LoopCondition(st.changed, it)
    THEN SimplifyFrom(LoopBody(st, FALSE), it + 1)
    ELSE st.result

simplify(e) ==
    SimplifyFrom([result |-> clone(e), changed |-> TRUE, trace_log_ |-> <<>>], 0)

---------------------------------------------------------------------------
(* The trees the client builds (examples/main.cpp builds them the same way) *)

VarNames == <<"x", "y", "z", "w">>

Vars == {Fsymbol(Symbol(VarNames[i])) : i \in 1 .. NumVars}

Leaves == Vars \cup {Fzero, Fone}

\* the first and the last of the client's variable leaves
VarFirst == Fsymbol(Symbol(VarNames[1]))

VarLast == Fsymbol(Symbol(VarNames[NumVars]))

Inner ==
    Leaves \cup {BinaryOpExpression(t, l, r) :
                    t \in {"ADD", "SUBTRACT", "MULTIPLY"}, l \in Vars, r \in {VarLast, Fzero}}

\* two levels of operators under an Add, Multiply or Commutator root
TwoLevel ==
    {Node(t, NoSymbol, <<p, q>>, <<>>) :
        t \in {"ADD", "MULTIPLY", "COMMUTATOR"}, p \in Inner, q \in Inner}

Coefficients == {1, 2}

RECURSIVE MakeSum(_, _, _)
MakeSum(terms, coeffs, acc) ==
    IF terms = <<>> THEN acc
    ELSE MakeSum(Tail(terms), Tail(coeffs), add_term(acc, Head(terms), Head(coeffs)))

\* add_term(t) for all terms but the last, add_term(t, c) for the last
Sums ==
    UNION {{MakeSum(ts, [i \in 1 .. n |-> IF i = n THEN c ELSE 1], SumExpression) :
                ts \in [1 .. n -> Vars], c \in Coefficients} :
           n \in 0 .. MaxTerms}

\* the remaining one-operator trees
OneLevel ==
    {BinaryOpExpression(t, l, r) : t \in {"DIVIDE", "POWER"}, l \in Leaves, r \in {VarFirst, Fone}}

\* x + 0 + 0 + ... : n nested "+ 0" around a symbol
RECURSIVE PlusZero(_, _)
PlusZero(e, n) == IF n = 0 THEN e ELSE Fadd(PlusZero(e, n - 1), Fzero)

Chains == {PlusZero(VarFirst, n) : n \in 0 .. MaxChain}

\* a product of a binary Add and an n-ary Sum, either way round
WithSum ==
    UNION {{Fmultiply(Fadd(VarFirst, VarLast), s), Fmultiply(s, Fadd(VarFirst, VarLast))} :
           s \in Sums}

\* compound operands for a commutator
Compound ==
    Sums \cup OneLevel
         \cup {Fcommutator(l, VarFirst) : l \in Leaves}
         \cup {Fadd(Fmultiply(VarFirst, VarLast), s) : s \in Sums}

\* a leaf named "0" whose value is not 0: equal to the zero leaf by (name, type)
ZeroNamed == Fsymbol(ScalarSymbol("0", 2))

Commutators ==
    {Fcommutator(e, e) : e \in Compound}
        \cup {Fcommutator(Fzero, ZeroNamed), Fcommutator(Fadd(Fzero, Fone), Fadd(ZeroNamed, Fone))}
        \cup {Fcommutator(VarFirst, s) : s \in Sums}

\* demonstrate_full_simplification: ((x + 0) * (y + 1*0)) + 0
FullExample ==
    LET x == Fsymbol(Symbol("x"))
        y == Fsymbol(Symbol("y"))
        x_plus_zero == Fadd(x, Fzero)
        one_times_zero == Fmultiply(Fone, Fzero)
        y_plus_one_times_zero == Fadd(y, one_times_zero)
        product == Fmultiply(x_plus_zero, y_plus_one_times_zero)
    IN  Fadd(product, Fzero)

\* a scalar leaf the client named "5" itself
Five == Fsymbol(ScalarSymbol("5", 5))

\* trees on which two rules of one category both apply: 0 + 5 and 1 * 0
OrderExamples ==
    {Fadd(Fzero, Five), Fadd(Fzero, Fconstant(5)),
     Fmultiply(Fone, Fconstant(0)), Fmultiply(Fone, Fzero)}

\* the nodes of a tree the client built belong to the client
RECURSIVE Caller(_)
RECURSIVE CallerSeq(_)
CallerSeq(s) == IF s = <<>> THEN <<>> ELSE <<Caller(Head(s))>> \o CallerSeq(Tail(s))

Caller(e) == [e EXCEPT !.heap = "caller", !.children = CallerSeq(e.children)]

Inputs ==
    {Caller(e) : e \in Leaves \cup OneLevel \cup TwoLevel \cup Sums \cup Chains
                        \cup WithSum \cup Commutators \cup {FullExample}
                        \cup OrderExamples}

\* the trees a comparison is made between
CompareSet ==
    {Caller(e) : e \in Leaves \cup {ZeroNamed} \cup Sums
                        \cup {Node("SUM", NoSymbol, <<v>>, <<>>) : v \in Vars}
                        \cup {Node(t, NoSymbol, <<p, q>>, <<>>) :
                                t \in {"ADD", "COMMUTATOR"},
                                p \in {Fzero, ZeroNamed, Fone}, q \in {Fzero, ZeroNamed}}}

---------------------------------------------------------------------------
(* util::ScopedMap<Key, Value>: scopedmap.h.  A scope is a std::map, here a *)
(* function from the keys it binds; scopes is the std::list, front first.   *)

Keys == {"a", "b"}

\* std::map iterates its keys in increasing order
KeyOrder == <<"a", "b">>

Values == {1, 2}

EmptyScope == [k \in {} |-> 0]

\* what a call reports: outcome is "returned", "thrown" or "undefined"
SmRet(o, k, outcome, found, value) ==
    [op |-> o, key |-> k, outcome |-> outcome, found |-> found, value |-> value]

NoCall == SmRet("none", "", "returned", FALSE, 0)

\* std::map::insert: a key that is already bound keeps its value
map_insert(m, k, v) ==
    IF k \in DOMAIN m THEN m
    ELSE [x \in DOMAIN m \cup {k} |-> IF x = k THEN v ELSE m[x]]

\* std::map::erase
map_erase(m, k) == [x \in DOMAIN m \ {k} |-> m[x]]

\* scope.begin()->second: the value of the smallest key
map_begin_second(m) ==
    LET i == CHOOSE j \in 1 .. Len(KeyOrder) :
                /\ KeyOrder[j] \in DOMAIN m
                /\ \A h \in 1 .. j - 1 : KeyOrder[h] \notin DOMAIN m
    IN  m[KeyOrder[i]]

\* a variant of the scan of get / contains / remove that starts at the outermost scope
RECURSIVE FindScope(_, _, _)
FindScope_outermost(s, k, i) ==
    LET hits == {j \in 1 .. Len(s) : k \in DOMAIN s[j]}
    IN  IF hits = {} THEN 0 ELSE CHOOSE j \in hits : \A h \in hits : h <= j

\* for (auto &scope : scopes) if (scope.find(key) != scope.end()): the position
\* of the first scope from the front that binds key, 0 if none does
FindScope(s, k, i) ==
    IF i > Len(s) THEN 0
    ELSE IF k \in DOMAIN s[i] THEN i
    ELSE FindScope(s, k, i + 1)

\* metawave_ierror << "Not in scope": throws MetaWaveException when the build
\* defines METAWAVE_ASSERTS, and is an empty Dummy() otherwise
ierror_throws == metawave_asserts

\* nothing recorded: no scope() of the client is open, none was just closed
NoneSaved == [open |-> <<>>, closed |-> <<>>]

\* the record of the scope() calls still open, the last call closing none
StillOpen == [sm_saved EXCEPT !.closed = <<>>]

\* a variant of insert that binds the key in the outermost scope
front_insert_back(s, k, v) == [s EXCEPT ![Len(s)] = map_insert(@, k, v)]

\* scopes.front().insert(value)
front_insert(s, k, v) == [s EXCEPT ![1] = map_insert(@, k, v)]

SmapInit ==
    /\ sm_saved = NoneSaved
    /\ scopes = <<>>
    /\ sm_pc = "none"
    /\ metawave_asserts = FALSE
    /\ sm_ret = NoCall

\* ScopedMap() { scope(); }
SM_construct(asserts) ==
    /\ sm_pc = "none"
    /\ scopes' = <<EmptyScope>>
    /\ sm_pc' = "live"
    /\ metawave_asserts' = asserts
    /\ sm_ret' = SmRet("construct", "", "returned", FALSE, 0)
    /\ sm_saved' = NoneSaved
    /\ UNCHANGED notSmapVars

\* scope(): scopes.push_front(std::map<Key, Value>())
SM_scope ==
    /\ sm_pc = "live"
    /\ Len(scopes) < MaxScopes
    /\ scopes' = <<EmptyScope>> \o scopes
    /\ sm_ret' = SmRet("scope", "", "returned", FALSE, 0)
    /\ sm_saved' = [open |-> <<scopes>> \o sm_saved.open, closed |-> <<>>]
    /\ UNCHANGED <<sm_pc, metawave_asserts>>
    /\ UNCHANGED notSmapVars

\* what undefined behaviour that writes to the list leaves behind: the process
\* dies, or it goes on with a corrupted object
AfterUndefined == {"undefined", "crashed"}

\* unscope(): scopes.pop_front(), undefined on an empty list
SM_unscope ==
    /\ sm_pc = "live"
    /\ IF Len(scopes) = 0
       THEN /\ sm_pc' \in AfterUndefined
            /\ sm_ret' = SmRet("unscope", "", "undefined", FALSE, 0)
            /\ sm_saved' = StillOpen
            /\ UNCHANGED scopes
       ELSE /\ scopes' = Tail(scopes)
            /\ sm_ret' = SmRet("unscope", "", "returned", FALSE, 0)
            /\ sm_saved' = IF sm_saved.open = <<>> THEN NoneSaved
                           ELSE [open |-> Tail(sm_saved.open),
                                 closed |-> <<[before |-> Head(sm_saved.open),
                                               inner |-> Head(scopes)]>>]
            /\ UNCHANGED sm_pc
    /\ UNCHANGED metawave_asserts
    /\ UNCHANGED notSmapVars

\* insert(value): scopes.front().insert(value), undefined on an empty list
SM_insert(k, v) ==
    /\ sm_pc = "live"
    /\ IF Len(scopes) = 0
       THEN /\ sm_pc' \in AfterUndefined
            /\ sm_ret' = SmRet("insert", k, "undefined", FALSE, 0)
            /\ UNCHANGED scopes
       ELSE /\ scopes' = front_insert(scopes, k, v)
            /\ sm_ret' = SmRet("insert", k, "returned", FALSE, v)
            /\ UNCHANGED sm_pc
    /\ sm_saved' = StillOpen
    /\ UNCHANGED metawave_asserts
    /\ UNCHANGED notSmapVars

\* remove(key)
SM_remove(k) ==
    /\ sm_pc = "live"
    /\ LET i == FindScope(scopes, k, 1)
       IN  IF i # 0
           THEN /\ scopes' = [scopes EXCEPT ![i] = map_erase(@, k)]
                /\ sm_ret' = SmRet("remove", k, "returned", TRUE, 0)
           ELSE /\ scopes' = scopes
                /\ sm_ret' = SmRet("remove", k,
                                   IF ierror_throws THEN "thrown" ELSE "returned", FALSE, 0)
    /\ sm_saved' = StillOpen
    /\ UNCHANGED <<sm_pc, metawave_asserts>>
    /\ UNCHANGED notSmapVars

\* get(key): after the scan, metawave_ierror and then
\* "return scopes.front().begin()->second": with no such element the read is
\* undefined, it yields any value or kills the process; it writes nothing
SM_get(k) ==
    /\ sm_pc = "live"
    /\ LET i == FindScope(scopes, k, 1)
       IN  IF i # 0
           THEN /\ sm_ret' = SmRet("get", k, "returned", TRUE, scopes[i][k])
                /\ UNCHANGED sm_pc
           ELSE IF ierror_throws
           THEN /\ sm_ret' = SmRet("get", k, "thrown", FALSE, 0)
                /\ UNCHANGED sm_pc
           ELSE IF Len(scopes) = 0 \/ DOMAIN scopes[1] = {}
           THEN \/ /\ \E v \in Values : sm_ret' = SmRet("get", k, "undefined", FALSE, v)
                   /\ UNCHANGED sm_pc
                \/ /\ sm_ret' = SmRet("get", k, "undefined", FALSE, 0)
                   /\ sm_pc' = "crashed"
           ELSE /\ sm_ret' = SmRet("get", k, "returned", FALSE, map_begin_second(scopes[1]))
                /\ UNCHANGED sm_pc
    /\ sm_saved' = StillOpen
    /\ UNCHANGED <<scopes, metawave_asserts>>
    /\ UNCHANGED notSmapVars

\* contains(key)
SM_contains(k) ==
    /\ sm_pc = "live"
    /\ sm_ret' = SmRet("contains", k, "returned", FindScope(scopes, k, 1) # 0, 0)
    /\ sm_saved' = StillOpen
    /\ UNCHANGED <<scopes, sm_pc, metawave_asserts>>
    /\ UNCHANGED notSmapVars

\* ~ScopedMap() { unscope(); }
SM_destruct ==
    /\ sm_pc = "live"
    /\ IF Len(scopes) = 0
       THEN /\ sm_pc' \in AfterUndefined
            /\ sm_ret' = SmRet("destruct", "", "undefined", FALSE, 0)
            /\ sm_saved' = StillOpen
            /\ UNCHANGED <<scopes, metawave_asserts>>
       ELSE /\ scopes' = <<>>
            /\ sm_saved' = NoneSaved
            /\ sm_pc' = "none"
            /\ metawave_asserts' = FALSE
            /\ sm_ret' = NoCall
    /\ UNCHANGED notSmapVars

\* get or contains on the corrupted object: any result
SM_undefined(o, k, found, v) ==
    /\ sm_pc = "undefined"
    /\ sm_ret.op \in {"unscope", "insert"}
    /\ sm_ret' = SmRet(o, k, "returned", found, v)
    /\ sm_saved' = StillOpen
    /\ UNCHANGED <<scopes, sm_pc, metawave_asserts>>
    /\ UNCHANGED notSmapVars

ScopedMapNext ==
    \/ \E asserts \in BOOLEAN : SM_construct(asserts)
    \/ SM_scope
    \/ SM_unscope
    \/ \E k \in Keys : \E v \in Values : SM_insert(k, v)
    \/ \E k \in Keys : SM_remove(k)
    \/ \E k \in Keys : SM_get(k)
    \/ \E k \in Keys : SM_contains(k)
    \/ SM_destruct
    \/ \E o \in {"get", "contains"} : \E k \in Keys : \E found \in BOOLEAN :
          \E v \in Values : SM_undefined(o, k, found, v)

---------------------------------------------------------------------------
(* util::NameGenerator: name_generator.h / name_generator.cpp 30-54 *)

\* the strings a client asks unique names for, and may reserve
NameArgs == {"x", "x0", "y"}

ReservedLists == {<<>>, <<"x">>, <<"x0">>, <<"x", "x0">>}

\* operator<<(ostream, int): decimal digits
StreamInt(i) == ToString(i)

\* NameGenerator(reserved): nameCounters.insert({str, 0}) for each str
RECURSIVE InsertReserved(_, _)
InsertReserved(list, counters) ==
    IF list = <<>> THEN counters
    ELSE InsertReserved(Tail(list), map_insert(counters, Head(list), 0))

\* NameGenerator::getUniqueName(name): the returned string and nameCounters after
getUniqueName(counters, name) ==
    IF name \in DOMAIN counters
    THEN [name |-> name \o StreamInt(counters[name]),
          counters |-> [counters EXCEPT ![name] = @ + 1]]
    ELSE [name |-> name,
          counters |-> [x \in DOMAIN counters \cup {name} |->
                            IF x = name THEN 0 ELSE counters[x]]]

NamesInit ==
    /\ ng_pc = "none"
    /\ nameCounters = EmptyScope
    /\ reserved = <<>>
    /\ issued = <<>>

\* NameGenerator() / NameGenerator(reserved)
NG_construct(list) ==
    /\ ng_pc = "none"
    /\ ng_pc' = "live"
    /\ nameCounters' = InsertReserved(list, EmptyScope)
    /\ reserved' = list
    /\ issued' = <<>>
    /\ UNCHANGED notNameVars

\* generator.getUniqueName(name)
NG_getUniqueName(name) ==
    /\ ng_pc = "live"
    /\ Len(issued) < MaxNames
    /\ LET r == getUniqueName(nameCounters, name)
       IN  /\ issued' = Append(issued, r.name)
           /\ nameCounters' = r.counters
    /\ UNCHANGED <<ng_pc, reserved>>
    /\ UNCHANGED notNameVars

NamesNext ==
    \/ \E list \in ReservedLists : NG_construct(list)
    \/ \E name \in NameArgs : NG_getUniqueName(name)

---------------------------------------------------------------------------
(* The process-wide counter: name_generator.cpp 20-28 *)

Threads == {"t1", "t2"}

\* std::to_string(int)
int_to_string(i) == ToString(i)

\* a variant of uniqueCount that reads the counter and leaves it as it is
uniqueCount_stale(c) == [value |-> c, counter |-> c]

\* uniqueCount(): return uniqueNameCounter++, one atomic read-modify-write:
\* the value returned and the counter after
uniqueCount(c) == [value |-> c, counter |-> c + 1]

CounterInit ==
    /\ uniqueNameCounter = 0
    /\ obtained = [t \in Threads |-> <<>>]

\* getUniqueId() called by thread t
GetUniqueId(t) ==
    /\ uniqueNameCounter < MaxCount
    /\ LET r == uniqueCount(uniqueNameCounter)
       IN  /\ uniqueNameCounter' = r.counter
           /\ obtained' = [obtained EXCEPT ![t] =
                              Append(@, [value |-> r.value, name |-> ""])]
    /\ UNCHANGED notCounterVars

\* uniqueName(prefix) called by thread t
UniqueName(t, prefix) ==
    /\ uniqueNameCounter < MaxCount
    /\ LET r == uniqueCount(uniqueNameCounter)
       IN  /\ uniqueNameCounter' = r.counter
           /\ obtained' = [obtained EXCEPT ![t] =
                              Append(@, [value |-> r.value,
                                         name |-> prefix \o int_to_string(r.value)])]
    /\ UNCHANGED notCounterVars

CounterNext ==
    \/ \E t \in Threads : GetUniqueId(t)
    \/ \E t \in Threads : UniqueName(t, "t")

---------------------------------------------------------------------------
(* IndexAttribute: index_attributes.h 18-28, index_attributes.cpp *)

IndexAttribute_none == 0
\* 1ULL << 0
IndexAttribute_is_core == 1
\* 11ULL << 1
IndexAttribute_is_act == 22
\* 11ULL << 2
IndexAttribute_is_virtual == 44
\* 1ULL << 3
IndexAttribute_is_alpha == 8
\* 1ULL << 4
IndexAttribute_is_beta == 16
\* 1ULL << 5
IndexAttribute_is_barred == 32
\* 1ULL << 6
IndexAttribute_is_unbarred == 64

\* operator& on uint64_t
RECURSIVE BitAnd(_, _)
BitAnd(a, b) ==
    IF a = 0 \/ b = 0 THEN 0
    ELSE ((a % 2) * (b % 2)) + 2 * BitAnd(a \div 2, b \div 2)

\* the conversion of the uint64_t to bool
is_core(v) == BitAnd(v, IndexAttribute_is_core) # 0
is_act(v) == BitAnd(v, IndexAttribute_is_act) # 0
is_virtual(v) == BitAnd(v, IndexAttribute_is_virtual) # 0
is_alpha(v) == BitAnd(v, IndexAttribute_is_alpha) # 0
is_beta(v) == BitAnd(v, IndexAttribute_is_beta) # 0
is_barred(v) == BitAnd(v, IndexAttribute_is_barred) # 0
is_unbarred(v) == BitAnd(v, IndexAttribute_is_unbarred) # 0

check_core_act_virtual(v) ==
    IF is_core(v)
    THEN ~(is_act(v) \/ is_virtual(v))
    ELSE ~(is_act(v) /\ is_virtual(v))

check_alpha_beta(v) == IF is_alpha(v) THEN ~is_beta(v) ELSE TRUE

check_barred_unbarred(v) == IF is_barred(v) THEN ~is_unbarred(v) ELSE TRUE

is_valid_index_attribute(v) ==
    check_core_act_virtual(v) /\ check_alpha_beta(v) /\ check_barred_unbarred(v)

NoAttr ==
    [checked |-> FALSE, is_core |-> FALSE, is_act |-> FALSE, is_virtual |-> FALSE,
     is_alpha |-> FALSE, is_beta |-> FALSE, is_barred |-> FALSE, is_unbarred |-> FALSE,
     valid |-> FALSE]

AttrInit ==
    /\ index_attribute = IndexAttribute_none
    /\ attr_ret = NoAttr

\* the predicates and is_valid_index_attribute called on v
Check_attribute(v) ==
    /\ index_attribute' = v
    /\ attr_ret' = [checked |-> TRUE, is_core |-> is_core(v), is_act |-> is_act(v),
                    is_virtual |-> is_virtual(v), is_alpha |-> is_alpha(v),
                    is_beta |-> is_beta(v), is_barred |-> is_barred(v),
                    is_unbarred |-> is_unbarred(v),
                    valid |-> is_valid_index_attribute(v)]
    /\ UNCHANGED notAttrVars

AttrNext == \E v \in 0 .. MaxAttribute : Check_attribute(v)

---------------------------------------------------------------------------
(* util::split: strings.cpp 31-54.  A std::string is the sequence of its   *)
(* characters, a position counts from 0.                                   *)

Chars == {"a", ","}

\* the strings of at most n characters
Strings(n) == UNION {[1 .. k -> Chars] : k \in 0 .. n}

\* std::string::npos, as a position no string has
npos == 0 - 1

\* str.substr(pos, count)
substr(s, pos, count) == SubSeq(s, pos + 1, pos + count)

\* s.find(d, pos): the first position >= pos at which d occurs in s, npos if
\* there is none; the empty string occurs at every position up to s.size()
find(s, d, pos) ==
    LET hits == {i \in pos .. Len(s) - Len(d) : substr(s, i, Len(d)) = d}
    IN  IF hits = {} THEN npos ELSE CHOOSE i \in hits : \A j \in hits : i <= j

\* ((keepDelim) ? delim : "") + piece
Piece(keep, d, piece) == (IF keep THEN d ELSE <<>>) \o piece

SplitInit ==
    /\ split_pc = "idle"
    /\ str = <<>>
    /\ delim = <<>>
    /\ keepDelim = FALSE
    /\ prev = 0
    /\ results = <<>>
    /\ split_turns = 0

\* split(s, d, keep): lines 33-35
Split_call(s, d, keep) ==
    /\ split_pc = "idle"
    /\ str' = s
    /\ delim' = d
    /\ keepDelim' = keep
    /\ prev' = 0
    /\ results' = <<>>
    /\ split_turns' = 0
    /\ split_pc' = "loop"
    /\ UNCHANGED notSplitVars

\* the while condition holds and the body runs: lines 37-45
Split_turn ==
    /\ split_pc = "loop"
    /\ split_turns < MaxTurns
    /\ LET next == find(str, delim, prev)
       IN  /\ next # npos
           /\ results' = IF next - prev # 0
                         THEN Append(results, Piece(keepDelim, delim, substr(str, prev, next - prev)))
                         ELSE results
           /\ prev' = next + Len(delim)
    /\ split_turns' = split_turns + 1
    /\ UNCHANGED <<split_pc, str, delim, keepDelim>>
    /\ UNCHANGED notSplitVars

\* the while condition fails; the rest of the string, return: lines 47-53
Split_return ==
    /\ split_pc = "loop"
    /\ find(str, delim, prev) = npos
    /\ results' = IF prev < Len(str)
                  THEN Append(results, Piece(keepDelim, delim, substr(str, prev, Len(str) - prev)))
                  ELSE results
    /\ split_pc' = "done"
    /\ UNCHANGED <<str, delim, keepDelim, prev, split_turns>>
    /\ UNCHANGED notSplitVars

SplitNext ==
    \/ \E s \in Strings(MaxStr) : \E d \in Strings(MaxDelim) : \E keep \in BOOLEAN :
          Split_call(s, d, keep)
    \/ Split_turn
    \/ Split_return

UtilInit == SmapInit /\ NamesInit /\ CounterInit /\ AttrInit /\ SplitInit

---------------------------------------------------------------------------
(* The state machine: a client builds a tree, calls one operation on it and *)
(* drops it.  simplify runs one turn of its while loop per step.            *)

BlankCmp == [eq |-> FALSE, hash_a |-> 0, hash_b |-> 0, text |-> ""]

Init ==
    /\ expr = Null
    /\ pc = "idle"
    /\ op = "none"
    /\ result = Null
    /\ changed = FALSE
    /\ iterations = 0
    /\ enable_trace_ = FALSE
    /\ trace_log_ = <<>>
    /\ ret = Null
    /\ other = Null
    /\ cmp = BlankCmp
    /\ UtilInit

\* the client builds a tree with the factories
Build(e) ==
    /\ pc = "idle"
    /\ expr' = e
    /\ pc' = "built"
    /\ op' = "build"
    /\ UNCHANGED <<result, changed, iterations, enable_trace_, trace_log_, ret, other, cmp>>
    /\ UNCHANGED utilVars

\* Simplifier simplifier(trace); simplifier.simplify(*expr): lines 9-28
Simplify_call(trace) ==
    /\ pc = "built"
    /\ enable_trace_' = trace
    /\ trace_log_' = <<>>
    /\ result' = clone(expr)
    /\ changed' = TRUE
    /\ iterations' = 0
    /\ pc' = "loop"
    /\ op' = "simplify"
    /\ UNCHANGED <<expr, ret, other, cmp>>
    /\ UNCHANGED utilVars

\* one turn of the while loop: lines 30-47
Simplify_pass ==
    /\ pc = "loop"
    /\ LoopCondition(changed, iterations)
    /\ LET st == LoopBody([result |-> result, changed |-> changed,
                           trace_log_ |-> trace_log_], enable_trace_)
       IN  /\ result' = st.result
           /\ changed' = st.changed
           /\ trace_log_' = st.trace_log_
    /\ iterations' = iterations + 1
    /\ UNCHANGED <<expr, pc, op, enable_trace_, ret, other, cmp>>
    /\ UNCHANGED utilVars

\* the loop ends and simplify returns result: line 49
Simplify_return ==
    /\ pc = "loop"
    /\ ~LoopCondition(changed, iterations)
    /\ ret' = result
    /\ pc' = "done"
    /\ UNCHANGED <<expr, op, result, changed, iterations, enable_trace_, trace_log_, other, cmp>>
    /\ UNCHANGED utilVars

\* a rule of the libraries called on the tree
ApplyRule(name) ==
    /\ pc = "built"
    /\ ret' = Rule(name, expr)
    /\ op' = name
    /\ pc' = "done"
    /\ UNCHANGED <<expr, result, changed, iterations, enable_trace_, trace_log_, other, cmp>>
    /\ UNCHANGED utilVars

\* Simplifier().apply_distributive_rules(*expr)
Apply_distributive ==
    /\ pc = "built"
    /\ ret' = apply_distributive_rules(expr)
    /\ op' = "apply_distributive_rules"
    /\ pc' = "done"
    /\ UNCHANGED <<expr, result, changed, iterations, enable_trace_, trace_log_, other, cmp>>
    /\ UNCHANGED utilVars

\* dynamic_cast<CommutatorExpression*>(expr)->expand()
Expand ==
    /\ pc = "built"
    /\ expr.type = "COMMUTATOR"
    /\ ret' = expand(expr)
    /\ op' = "expand"
    /\ pc' = "done"
    /\ UNCHANGED <<expr, result, changed, iterations, enable_trace_, trace_log_, other, cmp>>
    /\ UNCHANGED utilVars

\* expr->equals(*b), expr->hash(), b->hash()
Compare(b) ==
    /\ pc = "built"
    /\ expr \in CompareSet
    /\ other' = b
    /\ cmp' = [eq |-> equals(expr, b), hash_a |-> hash(expr), hash_b |-> hash(b),
                text |-> ""]
    /\ op' = "equals"
    /\ pc' = "done"
    /\ UNCHANGED <<expr, result, changed, iterations, enable_trace_, trace_log_, ret>>
    /\ UNCHANGED utilVars

\* the trees a client goes on editing: a root over leaves
Editable(e) ==
    /\ e.type \in BinaryTypes \cup {"COMMUTATOR", "SUM"}
    /\ \A i \in 1 .. Len(e.children) : e.children[i].type = "SYMBOL"

\* the leaves a client hands to add_child, set_child and add_term
EditLeaves == {Caller(VarFirst), Caller(Fzero)}

\* expr->add_child(c)
Add_child(c) ==
    /\ pc \in {"built", "edited"}
    /\ Editable(expr)
    /\ Len(expr.children) < MaxChildren
    /\ expr' = add_child(expr, c)
    /\ pc' = "edited"
    /\ op' = "add_child"
    /\ UNCHANGED <<result, changed, iterations, enable_trace_, trace_log_, ret, other, cmp>>
    /\ UNCHANGED utilVars

\* expr->set_child(i, c)
Set_child(i, c) ==
    /\ pc \in {"built", "edited"}
    /\ Editable(expr)
    /\ expr' = set_child(expr, i, c)
    /\ pc' = "edited"
    /\ op' = "set_child"
    /\ UNCHANGED <<result, changed, iterations, enable_trace_, trace_log_, ret, other, cmp>>
    /\ UNCHANGED utilVars

\* sum->add_term(c, coeff)
Add_term(c, coeff) ==
    /\ pc \in {"built", "edited"}
    /\ Editable(expr)
    /\ expr.type = "SUM"
    /\ Len(expr.children) < MaxChildren
    /\ expr' = add_term(expr, c, coeff)
    /\ pc' = "edited"
    /\ op' = "add_term"
    /\ UNCHANGED <<result, changed, iterations, enable_trace_, trace_log_, ret, other, cmp>>
    /\ UNCHANGED utilVars

\* sum->set_coefficient(i, coeff)
Set_coefficient(i, coeff) ==
    /\ pc \in {"built", "edited"}
    /\ Editable(expr)
    /\ expr.type = "SUM"
    /\ expr' = set_coefficient(expr, i, coeff)
    /\ pc' = "edited"
    /\ op' = "set_coefficient"
    /\ UNCHANGED <<result, changed, iterations, enable_trace_, trace_log_, ret, other, cmp>>
    /\ UNCHANGED utilVars

PropertyKeys == {"k"}

PropertyValues == {"v"}

\* expr->set_property(key, value), or the same on its first child
Set_property(on_child, key, value) ==
    /\ pc \in {"built", "edited"}
    /\ Editable(expr) \/ expr.type = "SYMBOL"
    /\ on_child => Len(expr.children) > 0
    /\ expr' = IF on_child
               THEN [expr EXCEPT !.children[1] = set_property(@, key, value)]
               ELSE set_property(expr, key, value)
    /\ pc' = "edited"
    /\ op' = "set_property"
    /\ UNCHANGED <<result, changed, iterations, enable_trace_, trace_log_, ret, other, cmp>>
    /\ UNCHANGED utilVars

\* expr->clone()
Clone ==
    /\ pc \in {"built", "edited"}
    /\ ret' = clone(expr)
    /\ op' = "clone"
    /\ pc' = "done"
    /\ UNCHANGED <<expr, result, changed, iterations, enable_trace_, trace_log_, other, cmp>>
    /\ UNCHANGED utilVars

\* Simplifier().simplify(*ret) on the tree a call of simplify returned
Simplify_again ==
    /\ pc = "done"
    /\ op = "simplify"
    /\ other' = simplify(ret)
    /\ op' = "simplify twice"
    /\ UNCHANGED <<expr, pc, result, changed, iterations, enable_trace_, trace_log_, ret, cmp>>
    /\ UNCHANGED utilVars

\* the symbols a client differentiates by: a variable, and a scalar of the same name
DerivativeVars == {Symbol(VarNames[1]), ScalarSymbol(VarNames[1], 1)}

\* expr->derivative(var)
Derivative(var) ==
    /\ pc \in {"built", "edited"}
    /\ expr.type \in {"SYMBOL", "SUM"}
    /\ ret' = derivative(expr, var)
    /\ other' = var
    /\ op' = "derivative"
    /\ pc' = "done"
    /\ UNCHANGED <<expr, result, changed, iterations, enable_trace_, trace_log_, cmp>>
    /\ UNCHANGED utilVars

\* expr->to_string()
To_string ==
    /\ pc = "built"
    /\ cmp' = [BlankCmp EXCEPT !.text = to_string(expr)]
    /\ op' = "to_string"
    /\ pc' = "done"
    /\ UNCHANGED <<expr, result, changed, iterations, enable_trace_, trace_log_, ret, other>>
    /\ UNCHANGED utilVars

\* the client drops the tree and the results
Discard ==
    /\ pc = "done"
    /\ expr' = Null
    /\ pc' = "idle"
    /\ op' = "none"
    /\ result' = Null
    /\ changed' = FALSE
    /\ iterations' = 0
    /\ enable_trace_' = FALSE
    /\ trace_log_' = <<>>
    /\ ret' = Null
    /\ other' = Null
    /\ cmp' = BlankCmp
    /\ UNCHANGED utilVars

Next ==
    \/ \E e \in Inputs : Build(e)
    \/ \E trace \in BOOLEAN : Simplify_call(trace)
    \/ Simplify_pass
    \/ Simplify_return
    \/ Simplify_again
    \/ \E name \in RuleNames : ApplyRule(name)
    \/ Apply_distributive
    \/ Expand
    \/ \E b \in CompareSet : Compare(b)
    \/ \E c \in EditLeaves : Add_child(c)
    \/ \E i \in 0 .. MaxChildren - 1 : \E c \in EditLeaves : Set_child(i, c)
    \/ \E c \in EditLeaves : \E coeff \in Coefficients : Add_term(c, coeff)
    \/ \E i \in 0 .. MaxChildren - 1 : \E coeff \in Coefficients : Set_coefficient(i, coeff)
    \/ \E on_child \in BOOLEAN : \E key \in PropertyKeys : \E value \in PropertyValues :
          Set_property(on_child, key, value)
    \/ Clone
    \/ To_string
    \/ \E var \in DerivativeVars : Derivative(var)
    \/ Discard

Spec == Init /\ [][Next]_vars

---------------------------------------------------------------------------
(* One Simplifier with tracing enabled, used for call after call: its      *)
(* trace log lives as long as the Simplifier does.                         *)

\* a tree that logs one entry in each of 10 passes, and one that logs one entry
LongInput == Caller(Fmultiply(Fadd(VarFirst, VarLast), VarFirst))

ShortInput == Caller(Fadd(VarFirst, Fzero))

TraceInputs == {LongInput, ShortInput}

\* simplifier.simplify(*e) once more on the same Simplifier: lines 13-28.
\* The client makes its long calls first and the short ones once the log
\* holds MinFill entries.
Resimplify(e) ==
    /\ pc = "done"
    /\ op = "simplify"
    /\ enable_trace_
    /\ e = LongInput => expr = LongInput
    /\ e = ShortInput => Len(trace_log_) >= MinFill
    /\ expr' = e
    /\ result' = clone(e)
    /\ changed' = TRUE
    /\ iterations' = 0
    /\ pc' = "loop"
    /\ UNCHANGED <<op, enable_trace_, trace_log_, ret, other, cmp>>
    /\ UNCHANGED utilVars

TraceNext ==
    \/ \E e \in TraceInputs : Build(e)
    \/ Simplify_call(TRUE)
    \/ Simplify_pass
    \/ Simplify_return
    \/ \E e \in TraceInputs : Resimplify(e)

TraceSpec == Init /\ [][TraceNext]_vars

\* a client of one ScopedMap
ScopedMapSpec == Init /\ [][ScopedMapNext]_vars

\* a client of one NameGenerator
NamesSpec == Init /\ [][NamesNext]_vars

\* threads drawing from the process-wide counter
CounterSpec == Init /\ [][CounterNext]_vars

\* a client examining index attributes
AttrSpec == Init /\ [][AttrNext]_vars

\* a client calling util::split
SplitSpec == Init /\ [][SplitNext]_vars

---------------------------------------------------------------------------
(* Helpers of the properties *)

SimplifyReturned == pc = "done" /\ op = "simplify"

\* no node of the tree is a node of the client's tree
RECURSIVE NoCallerNode(_)
NoCallerNode(e) ==
    /\ e.heap # "caller"
    /\ \A i \in 1 .. Len(e.children) : NoCallerNode(e.children[i])

\* one more turn of the loop on t adopts nothing, and no registered rule
\* rewrites the root of t into a tree that renders differently
IsFixedPoint(t) ==
    /\ LET st == LoopBody([result |-> t, changed |-> FALSE, trace_log_ |-> <<>>], FALSE)
       IN  ~st.changed /\ st.result = t
    /\ \A rt \in DOMAIN rules_ : \A i \in 1 .. Len(rules_[rt]) :
          LET n == Rule(rules_[rt][i], t)
          IN  n = Null \/ to_string(n) = to_string(t)

---------------------------------------------------------------------------
(* C1: simplify terminates: it never makes more than 10 passes, every turn *)
(* of its loop counts as one pass, and after the 10th pass the loop        *)
(* condition is false, so that simplify returns; also when the rules keep  *)
(* rewriting the tree (distribute and factor undoing each other).          *)
C1_SimplifyTerminates ==
    /\ [](iterations <= max_iterations)
    /\ [][(pc = "loop" /\ pc' = "loop") => (iterations' = iterations + 1)]_vars
    /\ []((pc = "loop" /\ iterations = max_iterations)
            => ~LoopCondition(changed, iterations))

\* simplify returned at the cap while its last pass was still rewriting
C1_Witness ==
    SimplifyReturned /\ iterations = max_iterations /\ changed

(* C2 as stated: whenever simplify returns, the returned tree is a fixed   *)
(* point of the default rule set.                                          *)
C2_AlwaysFixedPoint == SimplifyReturned => IsFixedPoint(ret)

(* C2 amended: when simplify returns because its last pass changed nothing *)
(* (changed is false), the returned tree is a fixed point of the default   *)
(* rule set.                                                               *)
C2_FixedPointUnlessCapped == (SimplifyReturned /\ ~changed) => IsFixedPoint(ret)

\* simplify rewrote the tree in several passes and stopped on a quiet pass
C2_Witness ==
    /\ SimplifyReturned
    /\ ~changed
    /\ iterations > 2
    /\ to_string(ret) # to_string(expr)

(* C3: simplify of ((x+0) * (y + 1*0)) + 0 renders as simplify of x*y.     *)
C3_FullExampleCollapses ==
    (SimplifyReturned /\ expr = Caller(FullExample))
        => to_string(ret)
             = to_string(simplify(Fmultiply(Fsymbol(Symbol("x")), Fsymbol(Symbol("y")))))

(* C4: simplify and every rule leave the tree passed to them as it was,    *)
(* and neither the returned tree nor simplify's working tree holds a node  *)
(* of it.                                                                  *)
C4_InputUntouched ==
    /\ [][(pc' \in {"loop", "done"}) => (expr' = expr)]_vars
    /\ [](NoCallerNode(ret) /\ NoCallerNode(result))

\* identity_addition returned a copy of an operand of the client's tree
C4_Witness ==
    /\ pc = "done"
    /\ op = "identity_addition"
    /\ ret # Null
    /\ Len(ret.children) = 2

(* C5: identity laws: for a variable leaf x, simplify(x + 0), simplify(0 + *)
(* x), simplify(x * 1) and simplify(1 * x) are structurally equal to x,    *)
(* and simplify(x * 0), simplify(0 * x) to the zero leaf.                  *)
C5_IdentityLaws ==
    SimplifyReturned =>
        \A x \in Vars :
            /\ expr \in {Caller(Fadd(x, Fzero)), Caller(Fadd(Fzero, x)),
                         Caller(Fmultiply(x, Fone)), Caller(Fmultiply(Fone, x))}
                  => equals(ret, x)
            /\ expr \in {Caller(Fmultiply(x, Fzero)), Caller(Fmultiply(Fzero, x))}
                  => equals(ret, Fzero)

\* simplify(0 * x) returned the zero leaf
C5_Witness ==
    /\ SimplifyReturned
    /\ \E x \in Vars : expr = Caller(Fmultiply(Fzero, x))
    /\ ret = Fzero

(* C6: simplify of a commutator whose two children are structurally equal  *)
(* returns the zero leaf, whatever the children are.                       *)
C6_SelfCommutatorIsZero ==
    (SimplifyReturned /\ expr.type = "COMMUTATOR" /\ equals(left(expr), right(expr)))
        => ret = Fzero

\* [E,E] with E an n-ary Sum of two terms simplified to the zero leaf
C6_Witness ==
    /\ SimplifyReturned
    /\ expr.type = "COMMUTATOR"
    /\ left(expr).type = "SUM"
    /\ Len(left(expr).children) = 2
    /\ equals(left(expr), right(expr))
    /\ ret = Fzero

\* (A*B) - (B*A) built by hand from the children of the commutator e
ExpandedByHand(e) ==
    Fsubtract(Fmultiply(left(e), right(e)), Fmultiply(right(e), left(e)))

(* C7: CommutatorExpression::expand and the rule expand_commutator both    *)
(* return a tree structurally equal to (A*B) - (B*A), operands in that     *)
(* order, and agree with each other.                                       *)
C7_ExpandIsABminusBA ==
    (pc = "done" /\ op \in {"expand", "expand_commutator"} /\ expr.type = "COMMUTATOR")
        => /\ equals(ret, ExpandedByHand(expr))
           /\ to_string(ret) = to_string(ExpandedByHand(expr))
           /\ equals(ret, IF op = "expand" THEN expand_commutator(expr) ELSE expand(expr))

\* expand() was called on [A,B] with A and B structurally different
C7_Witness ==
    /\ pc = "done"
    /\ op = "expand"
    /\ ~equals(left(expr), right(expr))
    /\ ret.type = "SUBTRACT"

\* the 4-term sum of (a+b)*(c+d) built by hand with add_term, as main.cpp does
DistributedByHand(e) ==
    LET a == child(left(e), 0)
        b == child(left(e), 1)
        c == child(right(e), 0)
        d == child(right(e), 1)
    IN  add_term(add_term(add_term(add_term(SumExpression,
            Fmultiply(a, c), 1), Fmultiply(a, d), 1), Fmultiply(b, c), 1), Fmultiply(b, d), 1)

(* C8: for (a+b)*(c+d), both operands binary Add, distribute_multiplication *)
(* and apply_distributive_rules return the Sum of the four terms a*c, a*d, *)
(* b*c, b*d in that order, each with coefficient 1.                        *)
C8_DistributeFourTerms ==
    (/\ pc = "done"
     /\ op \in {"distribute_multiplication", "apply_distributive_rules"}
     /\ expr.type = "MULTIPLY"
     /\ left(expr).type = "ADD"
     /\ right(expr).type = "ADD")
        => /\ ret.type = "SUM"
           /\ Len(ret.children) = 4
           /\ ret.coefficients_ = <<1, 1, 1, 1>>
           /\ equals(ret, DistributedByHand(expr))
           /\ to_string(ret) = to_string(DistributedByHand(expr))

\* apply_distributive_rules expanded a product of two sums with four different terms
C8_Witness ==
    /\ pc = "done"
    /\ op = "apply_distributive_rules"
    /\ expr.type = "MULTIPLY"
    /\ left(expr).type = "ADD"
    /\ right(expr).type = "ADD"
    /\ ret.type = "SUM"
    /\ \A i \in 1 .. 4 : \A j \in 1 .. 4 :
          i # j => ~equals(ret.children[i], ret.children[j])

\* a*c + b*c for (a+b)*c, and a*b + a*c for a*(b+c), built by hand
LeftDistributedByHand(e) ==
    Fadd(Fmultiply(child(left(e), 0), right(e)), Fmultiply(child(left(e), 1), right(e)))

RightDistributedByHand(e) ==
    Fadd(Fmultiply(left(e), child(right(e), 0)), Fmultiply(left(e), child(right(e), 1)))

DistributeCalled ==
    pc = "done" /\ op = "distribute_multiplication" /\ expr.type = "MULTIPLY"

(* C9 as stated: for (a+b)*c with c anything but a binary Add,             *)
(* distribute_multiplication returns a*c + b*c, and for a*(b+c) with a     *)
(* anything but a binary Add it returns a*b + a*c; also when c (a) is an   *)
(* n-ary Sum.                                                              *)
C9_OneSidedAnyOperand ==
    /\ (DistributeCalled /\ left(expr).type = "ADD" /\ right(expr).type # "ADD")
          => equals(ret, LeftDistributedByHand(expr))
    /\ (DistributeCalled /\ right(expr).type = "ADD" /\ left(expr).type # "ADD")
          => equals(ret, RightDistributedByHand(expr))

(* C9 amended: for (a+b)*c with c neither a binary Add nor an n-ary Sum,   *)
(* distribute_multiplication returns a*c + b*c, and for a*(b+c) with a     *)
(* neither a binary Add nor an n-ary Sum it returns a*b + a*c; when the    *)
(* other operand is an n-ary Sum it returns no match.                      *)
C9_OneSidedNoSum ==
    /\ (DistributeCalled /\ left(expr).type = "ADD" /\ right(expr).type \notin {"ADD", "SUM"})
          => equals(ret, LeftDistributedByHand(expr))
    /\ (DistributeCalled /\ right(expr).type = "ADD" /\ left(expr).type \notin {"ADD", "SUM"})
          => equals(ret, RightDistributedByHand(expr))
    /\ (/\ DistributeCalled
        /\ \/ left(expr).type = "ADD" /\ right(expr).type = "SUM"
           \/ left(expr).type = "SUM" /\ right(expr).type = "ADD")
          => ret = Null

\* (a+b)*c with c a product was expanded to a*c + b*c, a and b different
C9_Witness ==
    /\ DistributeCalled
    /\ left(expr).type = "ADD"
    /\ right(expr).type = "MULTIPLY"
    /\ ~equals(child(left(expr), 0), child(left(expr), 1))
    /\ ret.type = "ADD"

(* C10: equals implies equal hashes: whenever a.equals(b) holds,           *)
(* a.hash() = b.hash().                                                    *)
C10_EqualsImpliesHash ==
    (pc = "done" /\ op = "equals" /\ cmp.eq) => cmp.hash_a = cmp.hash_b

\* two trees that differ as values (a scalar's value, a missing coefficient) compared equal
C10_Witness ==
    /\ pc = "done"
    /\ op = "equals"
    /\ cmp.eq
    /\ expr # other
    /\ expr.type \in {"ADD", "SUM"}

---------------------------------------------------------------------------
\* the clone has, node by node, the terms and coefficients its class holds:
\* left and right of a binary node or commutator, every term of a Sum
RECURSIVE CopiedFrom(_, _)
CopiedFrom(c, e) ==
    /\ c.type = e.type
    /\ c.heap = "fresh"
    /\ CASE e.type = "SYMBOL" -> c.symbol = e.symbol
         [] e.type = "SUM" ->
               /\ Len(c.children) = Len(e.children)
               /\ \A i \in 0 .. Len(e.children) - 1 :
                     /\ CopiedFrom(child(c, i), child(e, i))
                     /\ coefficient(c, i) = coefficient(e, i)
         [] OTHER ->
               /\ Len(c.children) = 2
               /\ CopiedFrom(left(c), left(e))
               /\ CopiedFrom(right(c), right(e))

C12_TraceLogCapped ==
    /\ [](Len(trace_log_) <= TraceCap)
    /\ [][(pc = "loop" /\ pc' = "loop" /\ trace_log_' # trace_log_)
            => IF Len(trace_log_) = TraceCap
               THEN /\ Len(trace_log_') = TraceCap + 1 - TraceDrop
                    /\ SubSeq(trace_log_', 1, TraceCap - TraceDrop)
                          = SubSeq(trace_log_, TraceDrop + 1, TraceCap)
               ELSE /\ Len(trace_log_') > Len(trace_log_)
                    /\ SubSeq(trace_log_', 1, Len(trace_log_)) = trace_log_]_vars

\* the log was cut to 901 entries by the entry of a short call
C12_Witness ==
    /\ Len(trace_log_) = TraceCap + 1 - TraceDrop
    /\ expr = ShortInput
    /\ trace_log_[Len(trace_log_)] # trace_log_[Len(trace_log_) - 1]

(* C13: every BinaryOp node and every Commutator node has exactly two      *)
(* children, whatever public operations were applied to it.                *)
C13_BinaryHasTwoChildren ==
    (expr.type \in BinaryTypes \cup {"COMMUTATOR"}) => Len(expr.children) = 2

(* C14: the number of children of a Sum node equals the length of its      *)
(* coefficient list, whatever public operations were applied to it.        *)
C14_SumCoefficientCount ==
    (expr.type = "SUM") => Len(expr.children) = Len(expr.coefficients_)

---------------------------------------------------------------------------
\* some open scope binds k
Bound(k) == \E i \in 1 .. Len(scopes) : k \in DOMAIN scopes[i]

\* the value k has in the most recently opened scope that binds it
InnermostValue(k) ==
    LET i == CHOOSE j \in 1 .. Len(scopes) :
                /\ k \in DOMAIN scopes[j]
                /\ \A h \in 1 .. j - 1 : k \notin DOMAIN scopes[h]
    IN  scopes[i][k]

\* what get and contains have to report in the current state
LookupIsInnermost ==
    /\ (sm_ret.op = "get" /\ Bound(sm_ret.key))
          => /\ sm_ret.outcome = "returned"
             /\ sm_ret.value = InnermostValue(sm_ret.key)
    /\ (sm_ret.op = "contains")
          => /\ sm_ret.outcome = "returned"
             /\ sm_ret.found <=> Bound(sm_ret.key)

C16_MissingKeyThrows ==
    (/\ sm_ret.op \in {"get", "remove"}
     /\ ~sm_ret.found
     /\ sm_pc \in {"live", "crashed"})
        => sm_ret.outcome = "thrown"

---------------------------------------------------------------------------
(* C17: all strings getUniqueName returned on one NameGenerator are        *)
(* pairwise distinct and none of them is a reserved name.                  *)
C17_NamesUnique ==
    /\ \A i \in 1 .. Len(issued) : \A j \in 1 .. Len(issued) :
          i # j => issued[i] # issued[j]
    /\ \A i \in 1 .. Len(issued) : \A j \in 1 .. Len(reserved) :
          issued[i] # reserved[j]

\* every value a call obtained, with the thread and the position of the call
Draws == {<<t, i>> : t \in Threads, i \in 1 .. MaxCount + 1}

Drawn(d) == d[2] <= Len(obtained[d[1]])

(* C18: no two calls of getUniqueId / uniqueName, of whatever threads,     *)
(* obtain the same counter value, the values one thread obtains are        *)
(* strictly increasing, and uniqueName returns the prefix followed by the  *)
(* decimal value.                                                          *)
C18_CounterValuesOnce ==
    /\ \A d \in Draws : \A e \in Draws :
          (Drawn(d) /\ Drawn(e) /\ d # e)
             => obtained[d[1]][d[2]].value # obtained[e[1]][e[2]].value
    /\ \A t \in Threads : \A i \in 1 .. Len(obtained[t]) - 1 :
          obtained[t][i].value < obtained[t][i + 1].value
    /\ \A t \in Threads : \A i \in 1 .. Len(obtained[t]) :
          obtained[t][i].name \in {"", "t" \o ToString(obtained[t][i].value)}

\* two threads took turns: each obtained two values, interleaved
C18_Witness ==
    /\ Len(obtained["t1"]) = 2
    /\ Len(obtained["t2"]) = 2
    /\ obtained["t1"][1].value < obtained["t2"][1].value
    /\ obtained["t2"][1].value < obtained["t1"][2].value
    /\ obtained["t1"][2].value < obtained["t2"][2].value
    /\ obtained["t2"][2].name # ""

\* how many of the listed answers are TRUE
CountTrue(answers) == Cardinality({i \in 1 .. Len(answers) : answers[i]})

\* the seven single-attribute constants with the predicate that is their own
SingleAttributes ==
    {<<IndexAttribute_is_core, "is_core">>, <<IndexAttribute_is_act, "is_act">>,
     <<IndexAttribute_is_virtual, "is_virtual">>, <<IndexAttribute_is_alpha, "is_alpha">>,
     <<IndexAttribute_is_beta, "is_beta">>, <<IndexAttribute_is_barred, "is_barred">>,
     <<IndexAttribute_is_unbarred, "is_unbarred">>}

PredicateNames ==
    {"is_core", "is_act", "is_virtual", "is_alpha", "is_beta", "is_barred", "is_unbarred"}

(* C19: is_valid_index_attribute(v) is true exactly when v is at most one  *)
(* of core / act / virtual, at most one of alpha / beta and at most one of *)
(* barred / unbarred; and each single attribute constant is valid and      *)
(* satisfies its own is_* predicate and no other.                          *)
C19_ValidAttributes ==
    attr_ret.checked =>
        /\ attr_ret.valid <=>
              /\ CountTrue(<<attr_ret.is_core, attr_ret.is_act, attr_ret.is_virtual>>) <= 1
              /\ CountTrue(<<attr_ret.is_alpha, attr_ret.is_beta>>) <= 1
              /\ CountTrue(<<attr_ret.is_barred, attr_ret.is_unbarred>>) <= 1
        /\ \A a \in SingleAttributes :
              index_attribute = a[1]
                 => /\ attr_ret.valid
                    /\ \A p \in PredicateNames : attr_ret[p] <=> (p = a[2])

\* the positions, in registration order, of the rules of a category that apply to e
Matching(rt, e) == {i \in 1 .. Len(rules_[rt]) : Rule(rules_[rt][i], e) # Null}

\* what the earliest registered rule of the category that applies to e returns
FirstMatching(rt, e) ==
    IF Matching(rt, e) = {} THEN Null
    ELSE Rule(rules_[rt][CHOOSE i \in Matching(rt, e) : \A j \in Matching(rt, e) : i <= j], e)

(* C20: within a category the rules are tried in registration order and    *)
(* the result of the first one that applies is the one used: it is what    *)
(* apply_distributive_rules returns, and in the first pass of simplify it  *)
(* is the tree the ALGEBRAIC trace entry reports and, when it is a leaf,   *)
(* the tree the pass ends with.                                            *)
C20_FirstMatchWins ==
    /\ (pc = "done" /\ op = "apply_distributive_rules")
          => ret = FirstMatching("DISTRIBUTIVE", expr)
    /\ (pc = "loop" /\ op = "simplify" /\ iterations = 1)
          => LET first == FirstMatching("ALGEBRAIC", expr)
             IN  (first # Null /\ to_string(first) # to_string(expr))
                    => /\ enable_trace_ =>
                             /\ Len(trace_log_) >= 1
                             /\ trace_log_[1] = "Applied 0 rule: " \o to_string(expr)
                                                   \o " -> " \o to_string(first)
                       /\ first.type = "SYMBOL" => result = first

\* the first pass over 0 + 5 is done, with tracing: identity_addition and
\* combine_constants both apply and return different trees
C20_Witness ==
    /\ pc = "loop" /\ op = "simplify" /\ iterations = 1 /\ enable_trace_
    /\ expr = Caller(Fadd(Fzero, Five))
    /\ identity_addition(expr) # Null
    /\ combine_constants(expr) # Null
    /\ to_string(identity_addition(expr)) # to_string(combine_constants(expr))
    /\ result = identity_addition(expr)

\* one category's turn on tree t: the rewrite it adopts, or t itself
Adopted(rt, t) ==
    IF rt \in DOMAIN rules_
    THEN LET n == FirstMatching(rt, t)
         IN  IF n # Null /\ to_string(n) # to_string(t) THEN n ELSE t
    ELSE t

\* the entry a category logs when its turn took before to after
Entry(rt, old, before, after) ==
    IF after # before
    THEN <<"Applied " \o ToString(RuleTypeInt(rt)) \o " rule: " \o old
              \o " -> " \o to_string(after)>>
    ELSE <<>>

(* C21: a pass of simplify gives the categories their turn in the order    *)
(* Algebraic, Distributive, Commutator, Tensor, Operator, Symmetry; each   *)
(* turn is at most one rewrite, made on the tree the earlier turns of the  *)
(* pass left; a category without registered rules changes nothing.         *)
C21_CategoryOrder ==
    [][(pc = "loop" /\ pc' = "loop" /\ iterations' = iterations + 1)
         => LET old == to_string(result)
                a1 == Adopted("ALGEBRAIC", result)
                a2 == Adopted("DISTRIBUTIVE", a1)
                a3 == Adopted("COMMUTATOR", a2)
                a4 == Adopted("TENSOR", a3)
                a5 == Adopted("OPERATOR", a4)
                a6 == Adopted("SYMMETRY", a5)
            IN  /\ a6 = a3
                /\ result' = a6
                /\ changed' = (a6 # result)
                /\ enable_trace_ =>
                      trace_log_' = trace_log_ \o Entry("ALGEBRAIC", old, result, a1)
                                       \o Entry("DISTRIBUTIVE", old, a1, a2)
                                       \o Entry("COMMUTATOR", old, a2, a3)
                /\ ~enable_trace_ => trace_log_' = trace_log_]_vars

\* the first pass over ((x + 0) * (y + 1*0)) + 0 is done, with tracing: the
\* Algebraic turn dropped the outer + 0 and the Distributive turn rewrote
\* what it left
C21_Witness ==
    /\ pc = "loop" /\ op = "simplify" /\ iterations = 1 /\ enable_trace_
    /\ expr = Caller(FullExample)
    /\ Len(trace_log_) = 2
    /\ trace_log_[1] = "Applied 0 rule: " \o to_string(expr) \o " -> "
                          \o to_string(left(expr))
    /\ trace_log_[2] = "Applied 1 rule: " \o to_string(expr) \o " -> "
                          \o to_string(result)
    /\ result = distribute_multiplication(left(expr))

\* e is a binary Add of two binary Multiply nodes
IsSumOfProducts(e) ==
    /\ e.type = "ADD" /\ Len(e.children) = 2
    /\ left(e).type = "MULTIPLY" /\ Len(left(e).children) = 2
    /\ right(e).type = "MULTIPLY" /\ Len(right(e).children) = 2

(* C22: factor_common_terms on a binary Add of two binary Multiply nodes   *)
(* returns (a+b)*x when the right factors are structurally equal (a*x +    *)
(* b*x), otherwise x*(a+b) when the left factors are (x*a + x*b), built    *)
(* from copies of the operands in their order; in every other case it      *)
(* returns no match.                                                       *)
C22_FactorCommonTerms ==
    (pc = "done" /\ op = "factor_common_terms")
       => IF IsSumOfProducts(expr)
          THEN LET a == left(left(expr))
                   x == right(left(expr))
                   b == left(right(expr))
                   y == right(right(expr))
               IN  IF equals(x, y)
                   THEN /\ ret # Null
                        /\ ret.type = "MULTIPLY" /\ Len(ret.children) = 2
                        /\ left(ret).type = "ADD" /\ Len(left(ret).children) = 2
                        /\ CopiedFrom(left(left(ret)), a)
                        /\ CopiedFrom(right(left(ret)), b)
                        /\ CopiedFrom(right(ret), x)
                        /\ to_string(ret) = "(" \o to_string(a) \o " + " \o to_string(b)
                                               \o ") * " \o to_string(x)
                   ELSE IF equals(a, b)
                   THEN /\ ret # Null
                        /\ ret.type = "MULTIPLY" /\ Len(ret.children) = 2
                        /\ right(ret).type = "ADD" /\ Len(right(ret).children) = 2
                        /\ CopiedFrom(left(ret), a)
                        /\ CopiedFrom(left(right(ret)), x)
                        /\ CopiedFrom(right(right(ret)), y)
                        /\ to_string(ret) = to_string(a) \o " * (" \o to_string(x)
                                               \o " + " \o to_string(y) \o ")"
                   ELSE ret = Null
          ELSE ret = Null

\* factor_common_terms ran on a*x + a*x, where both sides share a factor
C22_Witness ==
    /\ pc = "done" /\ op = "factor_common_terms"
    /\ IsSumOfProducts(expr)
    /\ equals(right(left(expr)), right(right(expr)))
    /\ equals(left(left(expr)), left(right(expr)))
    /\ ret # Null
    /\ left(ret).type = "ADD"

\* the rendering of an operand, in parentheses when wrap says so
Operand(c, wrap) == IF wrap THEN "(" \o to_string(c) \o ")" ELSE to_string(c)

IsAddOrSubtract(c) == c.type \in {"ADD", "SUBTRACT"}

\* to_string was called on a binary operator node
RenderedBinary ==
    pc = "done" /\ op = "to_string" /\ expr.type \in BinaryTypes /\ Len(expr.children) = 2

(* C23, as claimed: a BinaryOp node renders an operand in parentheses      *)
(* exactly when the operand is an Add or Subtract and the node is a        *)
(* Multiply, Divide or Power; under an Add node no operand is wrapped.     *)
C23_ParensUnderTighterOperator ==
    RenderedBinary
       => LET tight == expr.type \in {"MULTIPLY", "DIVIDE", "POWER"}
          IN  cmp.text = Operand(left(expr), tight /\ IsAddOrSubtract(left(expr)))
                            \o " " \o operator_symbol_(expr.type) \o " "
                            \o Operand(right(expr), tight /\ IsAddOrSubtract(right(expr)))

(* C23, amended: a BinaryOp node renders an operand in parentheses exactly *)
(* when the operand is an Add or Subtract, whatever the node's own tag;    *)
(* operands of any other tag are never wrapped.                            *)
C23_ParensAroundAddSubtract ==
    RenderedBinary
       => cmp.text = Operand(left(expr), IsAddOrSubtract(left(expr)))
                        \o " " \o operator_symbol_(expr.type) \o " "
                        \o Operand(right(expr), IsAddOrSubtract(right(expr)))

\* an Add over an Add and a Subtract operand was rendered
C23_Witness ==
    /\ RenderedBinary
    /\ expr.type = "ADD"
    /\ left(expr).type = "ADD"
    /\ right(expr).type = "SUBTRACT"
    /\ cmp.text = "(" \o to_string(left(expr)) \o ") + (" \o to_string(right(expr)) \o ")"

\* the derivative of a Symbol leaf by var: the scalar one leaf or the zero leaf
LeafDerivative(leaf, var) ==
    IF leaf.symbol.name = var.name /\ leaf.symbol.type = var.type THEN Fone ELSE Fzero

(* C24: derivative(var) of a Sum node with n terms is a Sum node with n    *)
(* terms; its i-th term is the derivative of the i-th child and its i-th   *)
(* coefficient is the i-th coefficient of the original; a Symbol leaf's    *)
(* derivative is the one leaf when its (name, kind) is var's and the zero  *)
(* leaf otherwise.                                                         *)
C24_SumDerivative ==
    (pc = "done" /\ op = "derivative")
       => /\ expr.type = "SYMBOL" => ret = LeafDerivative(expr, other)
          /\ expr.type = "SUM"
                => /\ ret.type = "SUM"
                   /\ Len(ret.children) = Len(expr.children)
                   /\ Len(ret.coefficients_) = Len(expr.children)
                   /\ \A i \in 0 .. Len(expr.children) - 1 :
                         /\ child(expr, i).type = "SYMBOL"
                               => child(ret, i) = LeafDerivative(child(expr, i), other)
                         /\ coefficient(ret, i) = coefficient(expr, i)

\* a two-term Sum with a coefficient other than 1 was differentiated by one
\* of its variables and not the other
C24_Witness ==
    /\ pc = "done" /\ op = "derivative"
    /\ expr.type = "SUM"
    /\ Len(expr.children) = 2
    /\ coefficient(expr, 1) = 2
    /\ child(ret, 0) = Fone
    /\ child(ret, 1) = Fzero

\* simplify was called on the tree an earlier call of simplify returned
SimplifiedTwice == pc = "done" /\ op = "simplify twice"

(* C25, as claimed: simplify is idempotent on rendered output for every    *)
(* expression: simplify(simplify(e)) renders as simplify(e) does.          *)
C25_IdempotentAlways == SimplifiedTwice => to_string(other) = to_string(ret)

(* C25, amended: simplify(simplify(e)) renders as simplify(e) does         *)
(* whenever the first call returned because its last pass changed nothing. *)
C25_IdempotentUnlessCapped ==
    (SimplifiedTwice /\ ~changed) => to_string(other) = to_string(ret)

\* a first call that rewrote for several passes and stopped on its own was
\* followed by a second call
C25_Witness ==
    /\ SimplifiedTwice
    /\ ~changed
    /\ iterations >= 3
    /\ to_string(ret) # to_string(expr)
    /\ to_string(other) = to_string(ret)

\* the entry that describes a category's turn from before to after
FaithfulEntry(rt, before, after) ==
    IF after # before
    THEN <<"Applied " \o ToString(RuleTypeInt(rt)) \o " rule: " \o to_string(before)
              \o " -> " \o to_string(after)>>
    ELSE <<>>

(* C26: every trace entry "Applied <category> rule: <before> -> <after>"   *)
(* of a tracing simplify call gives as <before> the rendering of the tree  *)
(* immediately before that category's rewrite and as <after> the rendering *)
(* immediately after it, so that consecutive entries chain together.       *)
C26_TraceEntriesFaithful ==
    [][(pc = "loop" /\ pc' = "loop" /\ iterations' = iterations + 1 /\ enable_trace_)
         => LET a1 == Adopted("ALGEBRAIC", result)
                a2 == Adopted("DISTRIBUTIVE", a1)
                a3 == Adopted("COMMUTATOR", a2)
            IN  trace_log_' = trace_log_ \o FaithfulEntry("ALGEBRAIC", result, a1)
                                 \o FaithfulEntry("DISTRIBUTIVE", a1, a2)
                                 \o FaithfulEntry("COMMUTATOR", a2, a3)]_vars

\* every property set on a node of e is set, with its value, on the
\* corresponding node of c
RECURSIVE PropertiesKept(_, _)
PropertiesKept(c, e) ==
    /\ \A k \in DOMAIN e.properties_ :
          has_property(c, k) /\ get_property(c, k) = get_property(e, k)
    /\ \A i \in 1 .. Len(c.children) :
          i <= Len(e.children) => PropertiesKept(c.children[i], e.children[i])

(* C27: clone preserves node properties: every key set with               *)
(* set_property(k, v) on a node or on one of its descendants is set on the *)
(* corresponding node of the clone, with has_property(k) true and          *)
(* get_property(k) = v.                                                    *)
C27_ClonePreservesProperties ==
    (pc = "done" /\ op = "clone") => PropertiesKept(ret, expr)

\* what contains(k) and get(k) answer on the stack s
LookupIn(s, k) ==
    LET i == FindScope(s, k, 1)
    IN  IF i = 0 THEN [found |-> FALSE, value |-> 0]
        ELSE [found |-> TRUE, value |-> s[i][k]]

\* the last call was the unscope() that closed a scope() of the client
JustClosed == sm_pc = "live" /\ sm_saved.closed # <<>>

(* C28, as claimed: whatever insert, remove, get and contains calls were   *)
(* made between a scope() and its matching unscope(), every key's          *)
(* contains / get result after the unscope() is its result just before     *)
(* the scope().                                                            *)
C28_ScopesIsolated ==
    JustClosed
       => \A k \in Keys : LookupIn(scopes, k) = LookupIn(sm_saved.closed[1].before, k)

(* C28, amended: after the matching unscope() every outer scope binds a    *)
(* subset of the keys it bound just before the scope(), each to the value  *)
(* it had: calls inside the inner scope add and change no outer binding,   *)
(* they can only erase one, by remove.                                     *)
C28_OuterScopesOnlyShrink ==
    JustClosed
       => LET before == sm_saved.closed[1].before
          IN  /\ Len(scopes) = Len(before)
              /\ \A i \in 1 .. Len(scopes) :
                    /\ DOMAIN scopes[i] \subseteq DOMAIN before[i]
                    /\ \A k \in DOMAIN scopes[i] : scopes[i][k] = before[i][k]
              /\ \A k \in Keys :
                    (\A i \in 1 .. Len(scopes) : (k \in DOMAIN scopes[i]) = (k \in DOMAIN before[i]))
                       => LookupIn(scopes, k) = LookupIn(before, k)

\* a scope that shadowed an outer key with another value was closed, and the
\* outer binding is as it was before the scope was opened
C28_Witness ==
    /\ JustClosed
    /\ \E k \in Keys :
          /\ k \in DOMAIN sm_saved.closed[1].inner
          /\ LookupIn(sm_saved.closed[1].before, k).found
          /\ LookupIn(sm_saved.closed[1].before, k).value # sm_saved.closed[1].inner[k]
          /\ LookupIn(scopes, k) = LookupIn(sm_saved.closed[1].before, k)

(* C29: insert-then-get: a get(k) called immediately after insert({k, v})  *)
(* returns v, whatever the map held before, also when k was already bound  *)
(* in the current scope or in an outer one.                                *)
C29_InsertThenGet ==
    [][(/\ sm_pc = "live"
        /\ sm_ret.op = "insert" /\ sm_ret.outcome = "returned"
        /\ sm_ret'.op = "get" /\ sm_ret'.key = sm_ret.key)
          => (/\ sm_ret'.outcome = "returned"
              /\ sm_ret'.found
              /\ sm_ret'.value = sm_ret.value)]_vars

\* piece occurs in s as a run of consecutive characters
IsSubstring(piece, s) ==
    \E i \in 0 .. Len(s) - Len(piece) : substr(s, i, Len(piece)) = piece

(* C30: split terminates for every string and every delimiter, the empty   *)
(* delimiter included: its loop runs at most once per character of str and *)
(* once more; and it returns no empty piece: without keepDelim every piece *)
(* is a non-empty substring of str in which delim does not occur.          *)
C30_SplitTerminates ==
    /\ split_turns <= Len(str) + 1
    /\ split_pc = "done"
          => \A i \in 1 .. Len(results) :
                /\ Len(results[i]) > 0
                /\ ~keepDelim => /\ IsSubstring(results[i], str)
                                 /\ find(results[i], delim, 0) = npos

===========================================================================
